---- MODULE Spec2Model ----
(***************************************************************************)
(* A model of the indexing and segment-merge core of whoosh:               *)
(*   - imerge, read_run, write_postings and TempfilePool                   *)
(*     (src/src/whoosh/filedb/pools.py)                                    *)
(*   - MultiReader (src/src/whoosh/reading.py)                             *)
(*   - the posting formats (src/src/whoosh/fields.py)                      *)
(* A posting is the tuple <<fieldname, text, docnum, weight, valuestring>>.*)
(* Field names, texts and value strings are modelled by integer codes      *)
(* whose order is the order of the strings they stand for; the length of   *)
(* the string a code stands for is given by StrLen.                        *)
(***************************************************************************)
EXTENDS Integers, Sequences, FiniteSets, Bags, TLC

VARIABLES
    \* ---- imerge (pools.py 29-62) ----
    mg_inputs,      \* the sorted sequences the iterators were created over
    iterators,      \* per source: the items the generator has not produced yet
    mg_g,           \* position of the "for g in iterators" loop
    current,        \* the heap: a set of <<item, g>> pairs, g a source index
    gen,            \* the generator popped last / passed through at the end
    merged,         \* the sequence of items yielded so far
    yielded_from,   \* per source: the number of its items yielded so far
    handles,        \* per source: the file handle of its read_run generator
    mg_pc           \* "idle" | "fill" | "loop" | "refill" | "tail" | "done"

VARIABLES
    \* ---- TempfilePool (pools.py 138-294) ----
    pool,           \* the pool object: limit, size, count, postings, runs,
                    \* dir, _using_tempdir
    fs,             \* the file system: directories, run files, foreign files
    added,          \* every posting passed to add_posting, in call order
    wp_called,      \* finish() has called write_postings
    postiter,       \* the postings write_postings was handed by finish()
    pool_pc         \* "idle" | "open" | "merging" | "finished" | "cancelled"
                    \* | "failed": finish() was left by an exception

VARIABLES
    \* ---- write_postings (pools.py 73-135) ----
    wp_in,              \* the posting sequence postiter yields, as a whole
    wp_rest,            \* the postings postiter has not yielded yet
    inlinelimit,        \* the inlinelimit argument
    lengths,            \* the lengths argument: <<docnum, fieldname>> -> length
    current_fieldname,  \* 0 stands for None
    current_text,       \* 0 stands for None
    first,
    current_weight,
    offset,
    format,
    postwriter,         \* the posting writer: posttotal, blockcount, block, pos
    pwcalls,            \* the calls made on the posting writer, in order
    termtable,          \* the termtable.add(key, value) calls, in order
    closes,             \* per termtable.add: how the group was closed
    wp_pc               \* "idle" | "loop" | "done" | "raised"

VARIABLES
    \* ---- MultiReader._merge_iters (reading.py 423-458) ----
    mi_inputs,      \* the term sequences the iterators of iterlist run over
    iterlist,       \* per iterator: the terms it has not produced yet
    mi_it,          \* position of the "for it in iterlist" loop
    mi_current,     \* the heap: a set of <<fnum, text, docfreq, termcount, it>>
    active,
    mi_term,        \* the locals <<fnum, text, docfreq, termcount>>
    mi_out,         \* the tuples yielded so far
    mi_pc           \* "idle" | "fill" | "outer" | "inner" | "done" | "stopped"

VARIABLES
    \* ---- MultiReader document addressing (reading.py 291-300, 377-383) ----
    doc_counts,     \* doc_count_all() of each reader, in order
    doc_offsets,
    base,
    md_docnum,      \* the argument of the last _segment_and_docnum call
    md_result,      \* what it returned, or that it raised IndexError
    md_pc           \* "idle" | "init" | "ready"

VARIABLES
    \* ---- MultiReader.postings (reading.py 389-403) ----
    readers,        \* per segment reader: doc_count, schema (the field ids it
                    \* knows) and terms (the <<fieldid, text>> it contains)
    mp_term,        \* the arguments <<fieldid, text>> of the last postings call
    mp_result,      \* what it returned or raised
    sfn_result      \* what the last scorable_field_names call returned

VARIABLES
    \* ---- posting formats (fields.py 427-663) ----
    cv_format,      \* the Format class of the codec
    cv_data,        \* the payload handed to write_postvalue
    cv_stream,      \* the stream: the primitives written, in order
    cv_written,     \* what write_postvalue returned
    cv_read,        \* what read_postvalue returned or raised
    cv_metric,      \* the last supports(name) / data_to(data, name) calls:
                    \* the name and what each of them gave
    cv_pc           \* "idle" | "new" | "written" | "read"

VARIABLES
    \* ---- PoolBase field lengths (pools.py 181-200, 217-220) ----
    length_arrays,          \* fieldname -> array("B"), as a sequence
    fieldlength_totals,     \* fieldname -> total (a defaultdict(int))
    fieldlength_maxes,      \* fieldname -> max
    fl_calls,               \* the add_field_length calls made, in order
    fl_before,              \* length_arrays as _fill_lengths found them
    fl_doccount,            \* the doccount argument of _fill_lengths
    fl_pc,                  \* "idle" | "open" | "filled"
    ac_last                 \* the last add_content call and what it returned

VARIABLES
    \* ---- Schema (fields.py 168-303) ----
    sch,            \* _by_number, _names, _by_name, _numbers
    sch_last        \* the last call of add: its arguments, the schema it
                    \* found and how it ended

mergeVars == <<mg_inputs, iterators, mg_g, current, gen, merged, yielded_from,
               handles, mg_pc>>
poolVars == <<pool, fs, added, wp_called, postiter, pool_pc>>

wpVars == <<wp_in, wp_rest, inlinelimit, lengths, current_fieldname,
            current_text, first, current_weight, offset, format, postwriter,
            pwcalls, termtable, closes, wp_pc>>

miVars == <<mi_inputs, iterlist, mi_it, mi_current, active, mi_term, mi_out,
            mi_pc>>
mdVars == <<doc_counts, doc_offsets, base, md_docnum, md_result, md_pc>>

mpVars == <<readers, mp_term, mp_result, sfn_result>>
cvVars == <<cv_format, cv_data, cv_stream, cv_written, cv_read, cv_metric,
            cv_pc>>
flVars == <<length_arrays, fieldlength_totals, fieldlength_maxes, fl_calls,
            fl_before, fl_doccount, fl_pc, ac_last>>

schVars == <<sch, sch_last>>

vars == <<mergeVars, poolVars, wpVars, miVars, mdVars, mpVars, cvVars, flVars,
          schVars>>

notMerge == <<poolVars, wpVars, miVars, mdVars, mpVars, cvVars, flVars, schVars>>
notPool == <<mergeVars, wpVars, miVars, mdVars, mpVars, cvVars, flVars, schVars>>
notPoolMerge == <<wpVars, miVars, mdVars, mpVars, cvVars, flVars, schVars>>
notWP == <<mergeVars, poolVars, miVars, mdVars, mpVars, cvVars, flVars, schVars>>
notMI == <<mergeVars, poolVars, wpVars, mdVars, mpVars, cvVars, flVars, schVars>>
notMD == <<mergeVars, poolVars, wpVars, miVars, mpVars, cvVars, flVars, schVars>>
notMP == <<mergeVars, poolVars, wpVars, miVars, mdVars, cvVars, flVars, schVars>>
notCV == <<mergeVars, poolVars, wpVars, miVars, mdVars, mpVars, flVars, schVars>>
notFL == <<mergeVars, poolVars, wpVars, miVars, mdVars, mpVars, cvVars, schVars>>
notSchema == <<mergeVars, poolVars, wpVars, miVars, mdVars, mpVars, cvVars, flVars>>

-----------------------------------------------------------------------------
(* Python's ordering of tuples of equal length: lexicographic.             *)

LexLess(p, q) ==
    \E i \in 1..Len(p) :
        /\ \A j \in 1..(i - 1) : p[j] = q[j]
        /\ p[i] < q[i]

LexLeq(p, q) == p = q \/ LexLess(p, q)

IsSorted(s) == \A i \in 1..(Len(s) - 1) : LexLeq(s[i], s[i + 1])

SeqsUpTo(S, n) == UNION {[1..k -> S] : k \in 0..n}

SortedSeqsUpTo(S, n) == {s \in SeqsUpTo(S, n) : IsSorted(s)}

\* The multiset of the elements of a sequence.
RECURSIVE BagOfSeq(_)
BagOfSeq(s) ==
    IF s = <<>> THEN EmptyBag
    ELSE SetToBag({Head(s)}) (+) BagOfSeq(Tail(s))

\* The concatenation of a sequence of sequences.
RECURSIVE Flatten(_)
Flatten(ss) ==
    IF ss = <<>> THEN <<>> ELSE Head(ss) \o Flatten(Tail(ss))

-----------------------------------------------------------------------------
(* Bounds of the merge model.                                              *)

MaxSources == 3
MaxRunLen == 2

MergeItems == {<<1, 1, 0, 1, 0>>, <<1, 2, 1, 2, 1>>}

-----------------------------------------------------------------------------
(* imerge: heap of <<item, generator>> pairs.  heapq orders the pairs as   *)
(* tuples: by item, and among equal items by the generator objects, whose  *)
(* order is arbitrary; the top of the heap is any pair with a least item.  *)

\* A heap that gives a greatest item instead of a least one.
HeapTop_greatest(heap) ==
    {e \in heap : \A o \in heap : LexLeq(o[1], e[1])}

HeapTop(heap) ==
    {e \in heap : \A o \in heap : LexLeq(e[1], o[1])}

\* read_run: "f = open(filename, "rb")" when the generator is first resumed,
\* "f.close()" when it is resumed after its last record.
NewHandle == [open |-> FALSE, opens |-> 0, closes |-> 0]

run_open(h) == [h EXCEPT !.open = TRUE, !.opens = @ + 1]

\* A read_run that returns without "f.close()".
run_close_skipped(h) == h

run_close(h) == [h EXCEPT !.open = FALSE, !.closes = @ + 1]

\* A fill that reads each source to its end and keeps the first element.
imerge_fill_drain ==
    /\ UNCHANGED notMerge
    /\ mg_pc = "fill"
    /\ mg_g <= Len(iterators)
    /\ iterators[mg_g] # <<>>
    /\ current' = current \cup {<<Head(iterators[mg_g]), mg_g>>}
    /\ iterators' = [iterators EXCEPT ![mg_g] = <<>>]
    /\ handles' = [handles EXCEPT ![mg_g] = run_open(@)]
    /\ mg_g' = mg_g + 1
    /\ UNCHANGED <<mg_inputs, gen, merged, yielded_from, mg_pc>>

\* for g in iterators: try: current.append((g.next(), g))
imerge_fill_next ==
    /\ UNCHANGED notMerge
    /\ mg_pc = "fill"
    /\ mg_g <= Len(iterators)
    /\ iterators[mg_g] # <<>>
    /\ current' = current \cup {<<Head(iterators[mg_g]), mg_g>>}
    /\ iterators' = [iterators EXCEPT ![mg_g] = Tail(@)]
    /\ handles' = [handles EXCEPT ![mg_g] = run_open(@)]
    /\ mg_g' = mg_g + 1
    /\ UNCHANGED <<mg_inputs, gen, merged, yielded_from, mg_pc>>

\* for g in iterators: ... except StopIteration: pass
imerge_fill_stop ==
    /\ UNCHANGED notMerge
    /\ mg_pc = "fill"
    /\ mg_g <= Len(iterators)
    /\ iterators[mg_g] = <<>>
    /\ handles' = [handles EXCEPT ![mg_g] = run_close(run_open(@))]
    /\ mg_g' = mg_g + 1
    /\ UNCHANGED <<mg_inputs, iterators, current, gen, merged, yielded_from, mg_pc>>

\* heapify(current)
imerge_heapify ==
    /\ UNCHANGED notMerge
    /\ mg_pc = "fill"
    /\ mg_g > Len(iterators)
    /\ mg_pc' = "loop"
    /\ UNCHANGED <<mg_inputs, iterators, mg_g, current, gen, merged, yielded_from,
                   handles>>

\* while len(current) > 1: item, gen = heappop(current); yield item
imerge_pop ==
    /\ UNCHANGED notMerge
    /\ mg_pc = "loop"
    /\ Cardinality(current) > 1
    /\ \E e \in HeapTop(current) :
        /\ current' = current \ {e}
        /\ merged' = Append(merged, e[1])
        /\ yielded_from' = [yielded_from EXCEPT ![e[2]] = @ + 1]
        /\ gen' = e[2]
    /\ mg_pc' = "refill"
    /\ UNCHANGED <<mg_inputs, iterators, mg_g, handles>>

\* try: heappush(current, (gen.next(), gen)) except StopIteration: pass
imerge_refill ==
    /\ UNCHANGED notMerge
    /\ mg_pc = "refill"
    /\ IF iterators[gen] # <<>>
       THEN /\ current' = current \cup {<<Head(iterators[gen]), gen>>}
            /\ iterators' = [iterators EXCEPT ![gen] = Tail(@)]
            /\ UNCHANGED handles
       ELSE /\ handles' = [handles EXCEPT ![gen] = run_close(@)]
            /\ UNCHANGED <<current, iterators>>
    /\ mg_pc' = "loop"
    /\ UNCHANGED <<mg_inputs, mg_g, gen, merged, yielded_from>>

\* A shortcut that passes the last source through without yielding the item
\* of it that is held in current.
imerge_shortcut_silent ==
    /\ UNCHANGED notMerge
    /\ mg_pc = "loop"
    /\ Cardinality(current) = 1
    /\ \E e \in current : gen' = e[2]
    /\ mg_pc' = "tail"
    /\ UNCHANGED <<mg_inputs, iterators, mg_g, current, merged, yielded_from,
                   handles>>

\* if current: item, gen = current[0]; yield item
imerge_shortcut ==
    /\ UNCHANGED notMerge
    /\ mg_pc = "loop"
    /\ Cardinality(current) = 1
    /\ \E e \in current :
        /\ merged' = Append(merged, e[1])
        /\ yielded_from' = [yielded_from EXCEPT ![e[2]] = @ + 1]
        /\ gen' = e[2]
    /\ mg_pc' = "tail"
    /\ UNCHANGED <<mg_inputs, iterators, mg_g, current, handles>>

\* for item in gen: yield item
imerge_tail ==
    /\ UNCHANGED notMerge
    /\ mg_pc = "tail"
    /\ IF iterators[gen] # <<>>
       THEN /\ merged' = Append(merged, Head(iterators[gen]))
            /\ yielded_from' = [yielded_from EXCEPT ![gen] = @ + 1]
            /\ iterators' = [iterators EXCEPT ![gen] = Tail(@)]
            /\ UNCHANGED <<mg_pc, handles>>
       ELSE /\ mg_pc' = "done"
            /\ handles' = [handles EXCEPT ![gen] = run_close(@)]
            /\ UNCHANGED <<merged, yielded_from, iterators>>
    /\ UNCHANGED <<mg_inputs, mg_g, current, gen>>

\* if current: (false) -- the generator returns
imerge_return ==
    /\ UNCHANGED notMerge
    /\ mg_pc = "loop"
    /\ current = {}
    /\ mg_pc' = "done"
    /\ UNCHANGED <<mg_inputs, iterators, mg_g, current, gen, merged, yielded_from,
                   handles>>

imerge ==
    \/ imerge_fill_next
    \/ imerge_fill_stop
    \/ imerge_heapify
    \/ imerge_pop
    \/ imerge_refill
    \/ imerge_shortcut
    \/ imerge_tail
    \/ imerge_return

\* The value of mergeVars on entry to a call imerge(iterators), the iterators
\* being over the sequences srcs: current = [].
imerge_call(srcs) ==
    <<srcs, srcs, 1, {}, 0, <<>>, [i \in 1..Len(srcs) |-> 0],
      [i \in 1..Len(srcs) |-> NewHandle], "fill">>

MergeIdle == <<<<>>, <<>>, 1, {}, 0, <<>>, <<>>, <<>>, "idle">>

MergeIs(v) ==
    /\ mg_inputs = v[1]
    /\ iterators = v[2]
    /\ mg_g = v[3]
    /\ current = v[4]
    /\ gen = v[5]
    /\ merged = v[6]
    /\ yielded_from = v[7]
    /\ handles = v[8]
    /\ mg_pc = v[9]

MergeBecomes(v) ==
    /\ mg_inputs' = v[1]
    /\ iterators' = v[2]
    /\ mg_g' = v[3]
    /\ current' = v[4]
    /\ gen' = v[5]
    /\ merged' = v[6]
    /\ yielded_from' = v[7]
    /\ handles' = v[8]
    /\ mg_pc' = v[9]

-----------------------------------------------------------------------------
(* TempfilePool.                                                           *)

MaxAdds == 3

\* len(fieldname) + len(text) + 18
RecordOverhead == 18

\* The length of the string a code stands for: code k is a string of k
\* characters ("" for 0), so that the codes' order is the strings' order.
StrLen(code) == code

PoolPostings ==
    {<<1, 1, 0, 1, 0>>, <<1, 2, 0, 2, 1>>, <<2, 1, 1, 1, 0>>, <<1, 1, 1, 2, 2>>}

\* limit = limitmb * 1024 * 1024, limitmb any non-negative number: zero, below
\* one posting's estimate, between one and two, above two, above everything.
Limits == {0, 5, 21, 42, 1000}

\* list.sort() on tuples: ascending in the tuples' order.
InsertSorted(x, s) ==
    LET k == Cardinality({i \in 1..Len(s) : LexLeq(s[i], x)})
    IN  SubSeq(s, 1, k) \o <<x>> \o SubSeq(s, k + 1, Len(s))

RECURSIVE list_sort(_)
list_sort(s) ==
    IF s = <<>> THEN <<>>
    ELSE InsertSorted(s[Len(s)], list_sort(SubSeq(s, 1, Len(s) - 1)))

\* The pool and the file system it works on, as one value.
World == [pool |-> pool, fs |-> fs]

\* PoolBase.__init__ / TempfilePool.__init__ with dir = None or a directory of
\* the caller's ("given"), which may hold files that are not the pool's.
NewPool(limit, dirarg) ==
    [limit |-> limit, size |-> 0, count |-> 0, postings |-> <<>>,
     runs |-> <<>>, dir |-> dirarg, using_tempdir |-> (dirarg # "None")]

NewFs(dirarg, other) ==
    [dirs |-> IF dirarg = "None" THEN {} ELSE {dirarg},
     files |-> <<>>,
     other |-> other,
     made |-> 0,
     writing |-> {}]

\* PoolBase._make_dir: tempfile.mkdtemp when no directory is set.
make_dir(w) ==
    IF w.pool.dir = "None"
    THEN [pool |-> [w.pool EXCEPT !.dir = "temp"],
          fs |-> [w.fs EXCEPT !.dirs = @ \cup {"temp"}]]
    ELSE w

\* dump_run without "self.count = 0".
dump_run_count_kept(w) ==
    IF w.pool.size > 0
    THEN LET d == make_dir(w)
             filename == d.fs.made + 1
         IN  [pool |-> [d.pool EXCEPT !.runs = Append(@, <<filename, d.pool.count>>),
                                      !.postings = <<>>,
                                      !.size = 0],
              fs |-> [d.fs EXCEPT !.files = @ @@ (filename :> list_sort(d.pool.postings)),
                                  !.made = filename]]
    ELSE w

\* dump_run without "if self.size > 0".
dump_run_always(w) ==
    LET d == make_dir(w)
        filename == d.fs.made + 1
    IN  [pool |-> [d.pool EXCEPT !.runs = Append(@, <<filename, d.pool.count>>),
                                 !.postings = <<>>,
                                 !.size = 0,
                                 !.count = 0],
         fs |-> [d.fs EXCEPT !.files = @ @@ (filename :> list_sort(d.pool.postings)),
                             !.made = filename]]

\* dump_run without "self.postings.sort()".
dump_run_unsorted(w) ==
    IF w.pool.size > 0
    THEN LET d == make_dir(w)
             filename == d.fs.made + 1
         IN  [pool |-> [d.pool EXCEPT !.runs = Append(@, <<filename, d.pool.count>>),
                                      !.postings = <<>>,
                                      !.size = 0,
                                      !.count = 0],
              fs |-> [d.fs EXCEPT !.files = @ @@ (filename :> d.pool.postings),
                                  !.made = filename]]
    ELSE w

\* dump_run leaving the run file open.
runfile_close_skipped(writing, filename) == writing

\* "runfile.close()": fs.writing holds the files open for writing.
runfile_close(writing, filename) == writing \ {filename}

\* TempfilePool.dump_run.  The run file is named by the number of files made
\* so far; marshal.dump writes the postings in list order.
dump_run_in(w) ==
    IF w.pool.size > 0
    THEN LET d == make_dir(w)
             filename == d.fs.made + 1
             sorted == list_sort(d.pool.postings)
         IN  [pool |-> [d.pool EXCEPT !.runs = Append(@, <<filename, d.pool.count>>),
                                      !.postings = <<>>,
                                      !.size = 0,
                                      !.count = 0],
              fs |-> [d.fs EXCEPT !.files = @ @@ (filename :> sorted),
                                  !.made = filename,
                                  !.writing = runfile_close(@ \cup {filename}, filename)]]
    ELSE w

\* add_posting that accepts the posting first and tests the limit afterwards.
add_posting_late(w, p) ==
    LET vlen == IF p[5] # 0 THEN StrLen(p[5]) ELSE 0
        a == [w EXCEPT !.pool.size = @ + StrLen(p[1]) + StrLen(p[2]) + RecordOverhead + vlen,
                       !.pool.postings = Append(@, p),
                       !.pool.count = @ + 1]
    IN  IF a.pool.size >= a.pool.limit THEN dump_run_in(a) ELSE a

\* add_posting without "if self.size >= self.limit: self.dump_run()".
add_posting_unchecked(w, p) ==
    LET vlen == IF p[5] # 0 THEN StrLen(p[5]) ELSE 0
    IN  [w EXCEPT !.pool.size = @ + StrLen(p[1]) + StrLen(p[2]) + RecordOverhead + vlen,
                  !.pool.postings = Append(@, p),
                  !.pool.count = @ + 1]

\* TempfilePool.add_posting.
add_posting_in(w, p) ==
    LET d == IF w.pool.size >= w.pool.limit THEN dump_run_in(w) ELSE w
        vlen == IF p[5] # 0 THEN StrLen(p[5]) ELSE 0
    IN  [d EXCEPT !.pool.size = @ + StrLen(p[1]) + StrLen(p[2]) + RecordOverhead + vlen,
                  !.pool.postings = Append(@, p),
                  !.pool.count = @ + 1]

\* TempfilePool.run_filenames.
run_filenames(pl) == {pl.runs[i][1] : i \in 1..Len(pl.runs)}

\* PoolBase._clean_temp_dir: os.rmdir fails (OSError, swallowed) on a
\* directory that is not empty.
clean_temp_dir(w) ==
    IF /\ w.pool.using_tempdir
       /\ w.pool.dir # "None"
       /\ w.pool.dir \in w.fs.dirs
       /\ DOMAIN w.fs.files = {}
       /\ ~ (w.pool.dir = "given" /\ w.fs.other)
    THEN [w EXCEPT !.fs.dirs = @ \ {w.pool.dir}]
    ELSE w

\* TempfilePool.cleanup.
cleanup(w) ==
    LET left == DOMAIN w.fs.files \ run_filenames(w.pool)
    IN  clean_temp_dir([w EXCEPT !.fs.files = [f \in left |-> w.fs.files[f]]])

\* read_run(filename, count): count records read from the file with
\* marshal.load, which gives back the tuple marshal.dump was given.
read_run(files, filename, count) == SubSeq(files[filename], 1, count)

WorldBecomes(w) ==
    /\ pool' = w.pool
    /\ fs' = w.fs

add_posting ==
    /\ pool_pc = "open"
    /\ Len(added) < MaxAdds
    /\ \E p \in PoolPostings :
        /\ WorldBecomes(add_posting_in(World, p))
        /\ added' = Append(added, p)
    /\ UNCHANGED <<wp_called, postiter, pool_pc>>
    /\ UNCHANGED notPool

dump_run ==
    /\ pool_pc = "open"
    /\ WorldBecomes(dump_run_in(World))
    /\ UNCHANGED <<added, wp_called, postiter, pool_pc>>
    /\ UNCHANGED notPool

cancel ==
    /\ pool_pc = "open"
    /\ WorldBecomes(cleanup(World))
    /\ pool_pc' = "cancelled"
    /\ UNCHANGED <<added, wp_called, postiter>>
    /\ UNCHANGED notPool

\* finish(), "if self.postings or self.runs" false: write_postings is not
\* called.
finish_empty ==
    /\ pool_pc = "open"
    /\ pool.postings = <<>> /\ pool.runs = <<>>
    /\ WorldBecomes(cleanup(World))
    /\ pool_pc' = "finished"
    /\ UNCHANGED <<added, wp_called, postiter>>
    /\ UNCHANGED notPool

\* finish() taking the dump_run branch when no run is recorded: the buffer
\* goes through a run file.
finish_sort_spills ==
    /\ pool_pc = "open"
    /\ pool.postings # <<>> /\ Len(pool.runs) = 0
    /\ LET w == dump_run_in(World)
       IN  /\ postiter' = read_run(w.fs.files, w.pool.runs[1][1], w.pool.runs[1][2])
           /\ WorldBecomes(cleanup(w))
    /\ wp_called' = TRUE
    /\ pool_pc' = "finished"
    /\ UNCHANGED added
    /\ UNCHANGED notPool

\* finish(), "if self.postings and len(self.runs) == 0": the postings are
\* sorted in memory and write_postings consumes iter(self.postings).
finish_sort ==
    /\ pool_pc = "open"
    /\ pool.postings # <<>> /\ Len(pool.runs) = 0
    /\ LET w == [World EXCEPT !.pool.postings = list_sort(@)]
       IN  /\ postiter' = w.pool.postings
           /\ WorldBecomes(cleanup(w))
    /\ wp_called' = TRUE
    /\ pool_pc' = "finished"
    /\ UNCHANGED added
    /\ UNCHANGED notPool

\* finish(), the else branch without "self.dump_run()".
finish_merge_no_dump ==
    /\ pool_pc = "open"
    /\ pool.runs # <<>>
    /\ UNCHANGED <<pool, fs>>
    /\ MergeBecomes(imerge_call(
          [i \in 1..Len(pool.runs) |->
              read_run(fs.files, pool.runs[i][1], pool.runs[i][2])]))
    /\ wp_called' = TRUE
    /\ pool_pc' = "merging"
    /\ UNCHANGED <<added, postiter>>
    /\ UNCHANGED notPoolMerge

\* finish(), the else branch: dump_run, then write_postings is called with
\* imerge over one read_run per recorded run and pulls from it.
finish_merge ==
    /\ pool_pc = "open"
    /\ pool.runs # <<>>
    /\ LET w == dump_run_in(World)
       IN  /\ WorldBecomes(w)
           /\ MergeBecomes(imerge_call(
                 [i \in 1..Len(w.pool.runs) |->
                     read_run(w.fs.files, w.pool.runs[i][1], w.pool.runs[i][2])]))
    /\ wp_called' = TRUE
    /\ pool_pc' = "merging"
    /\ UNCHANGED <<added, postiter>>
    /\ UNCHANGED notPoolMerge

\* finish(), after write_postings has consumed the merged sequence:
\* self.cleanup().
finish_cleanup ==
    /\ pool_pc = "merging"
    /\ mg_pc = "done"
    /\ postiter' = merged
    /\ WorldBecomes(cleanup(World))
    /\ pool_pc' = "finished"
    /\ UNCHANGED <<added, wp_called>>
    /\ UNCHANGED notPool

\* finish(), "if self.postings and len(self.runs) == 0", when write_postings
\* raises (the storage fails under the term table or the posting writer):
\* finish() has no handler, so the exception leaves it before self.cleanup().
finish_sort_raises ==
    /\ pool_pc = "open"
    /\ pool.postings # <<>> /\ Len(pool.runs) = 0
    /\ WorldBecomes([World EXCEPT !.pool.postings = list_sort(@)])
    /\ wp_called' = TRUE
    /\ pool_pc' = "failed"
    /\ UNCHANGED <<added, postiter>>
    /\ UNCHANGED notPool

\* finish(), the else branch, when read_run or write_postings raises while
\* the merged sequence is being consumed: the exception leaves finish()
\* before self.cleanup(), and the generators go with its frame.
finish_merge_raises ==
    /\ pool_pc = "merging"
    /\ MergeBecomes(MergeIdle)
    /\ pool_pc' = "failed"
    /\ UNCHANGED <<pool, fs, added, wp_called, postiter>>
    /\ UNCHANGED notPoolMerge

PoolIdle == <<NewPool(0, "None"), NewFs("None", FALSE), <<>>, FALSE, <<>>, "idle">>

PoolIs(v) ==
    /\ pool = v[1]
    /\ fs = v[2]
    /\ added = v[3]
    /\ wp_called = v[4]
    /\ postiter = v[5]
    /\ pool_pc = v[6]

-----------------------------------------------------------------------------
(* write_postings.                                                         *)

MaxStream == 3

WPPostings ==
    {<<1, 1, 0, 1, 0>>, <<1, 1, 0, 2, 1>>, <<1, 1, 1, 1, 0>>, <<1, 2, 0, 2, 0>>,
     <<1, 2, 1, 1, 1>>, <<2, 1, 0, 1, 0>>, <<2, 1, 1, 2, 0>>, <<2, 2, 0, 1, 0>>}

InlineLimits == {0, 1, 2}

\* lengths.get(docnum, fieldname), 0 when nothing is recorded: a table with
\* no length recorded and one with a length for every document and field.
LengthTables ==
    {[d \in {0, 1}, f \in {1, 2} |-> 0], [d \in {0, 1}, f \in {1, 2} |-> d + f]}

\* schema[fieldname].format
schema == [f \in {1, 2} |-> IF f = 1 THEN "Frequency" ELSE "Positions"]

Key(p) == <<p[1], p[2]>>

\* The posting writer (whoosh.filedb.filepostings, not part of the sources
\* at hand), after the interface the specification gives: start(format)
\* returns the place the posting list starts at, write() buffers a posting
\* and writes a block once BlockLimit postings are buffered, finish() writes
\* the postings still buffered and returns the number of postings written,
\* as_inline() gives the buffered postings, cancel() drops them.
BlockLimit == 2

NewPostwriter == [posttotal |-> 0, blockcount |-> 0, block |-> <<>>, pos |-> 0]

NoOffset == [kind |-> "None", pos |-> 0, data |-> <<>>]

pw_write_block(pw) ==
    [pw EXCEPT !.block = <<>>, !.blockcount = @ + 1, !.pos = @ + 1]

pw_start(pw) ==
    [pw EXCEPT !.posttotal = 0, !.blockcount = 0, !.block = <<>>, !.pos = @ + 1]

pw_start_offset(pw) == [kind |-> "offset", pos |-> pw.pos, data |-> <<>>]

pw_write(pw, docnum, weight, valuestring, length) ==
    LET b == [pw EXCEPT !.block = Append(@, <<docnum, weight, valuestring, length>>),
                        !.posttotal = @ + 1]
    IN  IF Len(b.block) >= BlockLimit THEN pw_write_block(b) ELSE b

pw_finish(pw) == IF pw.block # <<>> THEN pw_write_block(pw) ELSE pw

pw_as_inline(pw) == [kind |-> "inline", pos |-> 0, data |-> pw.block]

pw_cancel(pw) == [pw EXCEPT !.block = <<>>]

Call(op, arg) == [op |-> op, arg |-> arg]

\* The test for a new term without the comparison of the texts.
is_new_term_by_field(fst, fieldname, text, cf, ct) ==
    fst \/ fieldname > cf

\* "if first or fieldname > current_fieldname or text > current_text"
is_new_term(fst, fieldname, text, cf, ct) ==
    fst \/ fieldname > cf \/ text > ct

\* "elif (fieldname < current_fieldname or (fieldname == current_fieldname
\*        and text < current_text))"
is_out_of_order(fieldname, text, cf, ct) ==
    fieldname < cf \/ (fieldname = cf /\ text < ct)

\* The number of blocks taken for the number of postings.
close_postcount_blocks(pw) == pw.blockcount

\* "postcount = postwriter.posttotal"
close_postcount(pw) == pw.posttotal

\* "if postcount <= inlinelimit and postwriter.blockcount < 1"
close_inline(postcount, limit, blockcount) ==
    postcount <= limit /\ blockcount < 1

\* A group opened without resetting the running weight.
open_weight_kept(weight) == weight

\* "current_weight = 0" when a group opens
open_weight(weight) == 0

\* Lines 113-119: reset the post writer and the term variables; pw is the
\* writer start() is called on.
wp_open_group(fieldname, text, pw) ==
    /\ format' = IF fieldname # current_fieldname
                 THEN schema[fieldname] ELSE format
    /\ current_fieldname' = fieldname
    /\ current_text' = text
    /\ offset' = pw_start_offset(pw)

\* Lines 127-129 with the running weight handed to write().
wp_write_posting_total(p, pw, cw, calls) ==
    LET length == lengths[p[3], p[1]]
    IN  /\ current_weight' = cw + p[4]
        /\ postwriter' = pw_write(pw, p[3], cw + p[4], p[5], length)
        /\ pwcalls' = Append(calls, Call("write", <<p[3], cw + p[4], p[5], length>>))

\* Lines 127-129 after the branch left the writer pw, the weight cw and the
\* calls made so far: current_weight += weight; postwriter.write(...).
wp_write_posting(p, pw, cw, calls) ==
    LET length == lengths[p[3], p[1]]
    IN  /\ current_weight' = cw + p[4]
        /\ postwriter' = pw_write(pw, p[3], p[4], p[5], length)
        /\ pwcalls' = Append(calls, Call("write", <<p[3], p[4], p[5], length>>))

\* The first posting of the stream: lines 94-96 and 113-129.
wp_first ==
    /\ wp_pc = "loop"
    /\ wp_rest # <<>>
    /\ LET p == Head(wp_rest)
       IN  /\ is_new_term(first, p[1], p[2], current_fieldname, current_text)
           /\ first
           /\ first' = FALSE
           /\ wp_open_group(p[1], p[2], postwriter)
           /\ wp_write_posting(p, pw_start(postwriter), open_weight(current_weight),
                               Append(pwcalls, Call("start", <<schema[p[1]]>>)))
    /\ wp_rest' = Tail(wp_rest)
    /\ UNCHANGED <<wp_in, inlinelimit, lengths, termtable, closes, wp_pc>>
    /\ UNCHANGED notWP

\* A new term without "if fieldname != current_fieldname: format = ...": the
\* writer is started with the format of the group before.
wp_new_term_format_kept ==
    /\ wp_pc = "loop"
    /\ wp_rest # <<>>
    /\ LET p == Head(wp_rest)
           postcount == close_postcount(postwriter)
           inline == close_inline(postcount, inlinelimit, postwriter.blockcount)
           closed == IF inline THEN pw_cancel(postwriter) ELSE pw_finish(postwriter)
           off == IF inline THEN pw_as_inline(postwriter) ELSE offset
           calls == IF inline
                    THEN pwcalls \o <<Call("as_inline", <<>>), Call("cancel", <<>>)>>
                    ELSE Append(pwcalls, Call("finish", <<>>))
       IN  /\ is_new_term(first, p[1], p[2], current_fieldname, current_text)
           /\ ~ first
           /\ termtable' = Append(termtable,
                  <<<<current_fieldname, current_text>>,
                    <<current_weight, off, postcount>>>>)
           /\ closes' = Append(closes,
                  [postcount |-> postcount, blockcount |-> postwriter.blockcount,
                   inline |-> inline, finished |-> ~ inline])
           /\ format' = format
           /\ current_fieldname' = p[1]
           /\ current_text' = p[2]
           /\ offset' = pw_start_offset(closed)
           /\ wp_write_posting(p, pw_start(closed), open_weight(current_weight),
                  Append(calls, Call("start", <<format>>)))
    /\ wp_rest' = Tail(wp_rest)
    /\ UNCHANGED <<wp_in, inlinelimit, lengths, first, wp_pc>>
    /\ UNCHANGED notWP

\* A posting that starts a new term: lines 94, 98-111 and 113-129.
wp_new_term ==
    /\ wp_pc = "loop"
    /\ wp_rest # <<>>
    /\ LET p == Head(wp_rest)
           postcount == close_postcount(postwriter)
           inline == close_inline(postcount, inlinelimit, postwriter.blockcount)
           closed == IF inline THEN pw_cancel(postwriter) ELSE pw_finish(postwriter)
           off == IF inline THEN pw_as_inline(postwriter) ELSE offset
           calls == IF inline
                    THEN pwcalls \o <<Call("as_inline", <<>>), Call("cancel", <<>>)>>
                    ELSE Append(pwcalls, Call("finish", <<>>))
       IN  /\ is_new_term(first, p[1], p[2], current_fieldname, current_text)
           /\ ~ first
           /\ termtable' = Append(termtable,
                  <<<<current_fieldname, current_text>>,
                    <<current_weight, off, postcount>>>>)
           /\ closes' = Append(closes,
                  [postcount |-> postcount, blockcount |-> postwriter.blockcount,
                   inline |-> inline, finished |-> ~ inline])
           /\ wp_open_group(p[1], p[2], closed)
           /\ wp_write_posting(p, pw_start(closed), open_weight(current_weight),
                  Append(calls,
                         Call("start", <<IF p[1] # current_fieldname
                                         THEN schema[p[1]] ELSE format>>)))
    /\ wp_rest' = Tail(wp_rest)
    /\ UNCHANGED <<wp_in, inlinelimit, lengths, first, wp_pc>>
    /\ UNCHANGED notWP

\* Lines 121-125: raise Exception("Postings are out of order ...").
wp_raise ==
    /\ wp_pc = "loop"
    /\ wp_rest # <<>>
    /\ LET p == Head(wp_rest)
       IN  /\ ~ is_new_term(first, p[1], p[2], current_fieldname, current_text)
           /\ is_out_of_order(p[1], p[2], current_fieldname, current_text)
    /\ wp_rest' = Tail(wp_rest)
    /\ wp_pc' = "raised"
    /\ UNCHANGED <<wp_in, inlinelimit, lengths, current_fieldname, current_text,
                   first, current_weight, offset, format, postwriter, pwcalls,
                   termtable, closes>>
    /\ UNCHANGED notWP

\* A further posting of the current term: lines 127-129 only.
wp_same_term ==
    /\ wp_pc = "loop"
    /\ wp_rest # <<>>
    /\ LET p == Head(wp_rest)
       IN  /\ ~ is_new_term(first, p[1], p[2], current_fieldname, current_text)
           /\ ~ is_out_of_order(p[1], p[2], current_fieldname, current_text)
           /\ wp_write_posting(p, postwriter, current_weight, pwcalls)
    /\ wp_rest' = Tail(wp_rest)
    /\ UNCHANGED <<wp_in, inlinelimit, lengths, current_fieldname, current_text,
                   first, offset, format, termtable, closes, wp_pc>>
    /\ UNCHANGED notWP

\* Lines 131-135 without the call of postwriter.finish().
wp_end_unclosed ==
    /\ wp_pc = "loop"
    /\ wp_rest = <<>>
    /\ IF ~ first
       THEN /\ termtable' = Append(termtable,
                   <<<<current_fieldname, current_text>>,
                     <<current_weight, offset, postwriter.posttotal>>>>)
            /\ closes' = Append(closes,
                   [postcount |-> postwriter.posttotal,
                    blockcount |-> postwriter.blockcount,
                    inline |-> FALSE, finished |-> FALSE])
            /\ UNCHANGED <<postwriter, pwcalls>>
       ELSE UNCHANGED <<postwriter, pwcalls, termtable, closes>>
    /\ wp_pc' = "done"
    /\ UNCHANGED <<wp_in, wp_rest, inlinelimit, lengths, current_fieldname,
                   current_text, first, current_weight, offset, format>>
    /\ UNCHANGED notWP

\* Lines 131-135, after the loop: "if not first: postcount =
\* postwriter.finish(); termtable.add(...)".
wp_end ==
    /\ wp_pc = "loop"
    /\ wp_rest = <<>>
    /\ IF ~ first
       THEN LET finished == pw_finish(postwriter)
                postcount == finished.posttotal
            IN  /\ postwriter' = finished
                /\ pwcalls' = Append(pwcalls, Call("finish", <<>>))
                /\ termtable' = Append(termtable,
                       <<<<current_fieldname, current_text>>,
                         <<current_weight, offset, postcount>>>>)
                /\ closes' = Append(closes,
                       [postcount |-> postcount,
                        blockcount |-> postwriter.blockcount,
                        inline |-> FALSE, finished |-> TRUE])
       ELSE UNCHANGED <<postwriter, pwcalls, termtable, closes>>
    /\ wp_pc' = "done"
    /\ UNCHANGED <<wp_in, wp_rest, inlinelimit, lengths, current_fieldname,
                   current_text, first, current_weight, offset, format>>
    /\ UNCHANGED notWP

\* The value of wpVars on entry to write_postings(schema, termtable, lengths,
\* postwriter, postiter, inlinelimit).
write_postings_call(stream, limit, table) ==
    <<stream, stream, limit, table, 0, 0, TRUE, 0, NoOffset, "None",
      NewPostwriter, <<>>, <<>>, <<>>, "loop">>

WPIdle ==
    <<<<>>, <<>>, 1, [d \in {0, 1}, f \in {1, 2} |-> 0], 0, 0, TRUE, 0, NoOffset,
      "None", NewPostwriter, <<>>, <<>>, <<>>, "idle">>

WPIs(v) ==
    /\ wp_in = v[1]
    /\ wp_rest = v[2]
    /\ inlinelimit = v[3]
    /\ lengths = v[4]
    /\ current_fieldname = v[5]
    /\ current_text = v[6]
    /\ first = v[7]
    /\ current_weight = v[8]
    /\ offset = v[9]
    /\ format = v[10]
    /\ postwriter = v[11]
    /\ pwcalls = v[12]
    /\ termtable = v[13]
    /\ closes = v[14]
    /\ wp_pc = v[15]

-----------------------------------------------------------------------------
(* MultiReader._merge_iters.                                               *)

MaxIters == 3

\* Terms <<fnum, text, docfreq, termcount>> a segment may report.
Terms == {<<1, 1, 2, 5>>, <<1, 1, 1, 1>>, <<1, 2, 1, 2>>, <<2, 1, 3, 3>>}

StrictlyAscendingKeys(s) ==
    \A i \in 1..(Len(s) - 1) : LexLess(Key(s[i]), Key(s[i + 1]))

\* What a segment's term iterator can yield: terms in strictly ascending key
\* order, possibly none.
TermIters == {s \in SeqsUpTo(Terms, 3) : StrictlyAscendingKeys(s)}

\* current[0]: heapq orders the tuples by fnum, text, docfreq, termcount and
\* then by the iterator objects, whose order is arbitrary.
mi_top(heap) ==
    {e \in heap : \A o \in heap : LexLeq(SubSeq(e, 1, 4), SubSeq(o, 1, 4))}

\* The match of the head term without the comparison of the texts.
mi_matches_by_field(e, fnum, text) == e[1] = fnum

\* "current[0][0] == fnum and current[0][1] == text"
mi_matches(e, fnum, text) == e[1] = fnum /\ e[2] = text

\* for it in iterlist: fnum, text, docfreq, termcount = it.next();
\* current.append(...)
mi_fill_next ==
    /\ mi_pc = "fill"
    /\ mi_it <= Len(iterlist)
    /\ iterlist[mi_it] # <<>>
    /\ mi_current' = mi_current \cup {Append(Head(iterlist[mi_it]), mi_it)}
    /\ iterlist' = [iterlist EXCEPT ![mi_it] = Tail(@)]
    /\ mi_it' = mi_it + 1
    /\ UNCHANGED <<mi_inputs, active, mi_term, mi_out, mi_pc>>
    /\ UNCHANGED notMI

\* it.next() on an iterator with no term raises StopIteration, which nothing
\* catches: raised in the generator's body it ends the generator, which has
\* yielded nothing yet.
mi_fill_stop ==
    /\ mi_pc = "fill"
    /\ mi_it <= Len(iterlist)
    /\ iterlist[mi_it] = <<>>
    /\ mi_pc' = "stopped"
    /\ UNCHANGED <<mi_inputs, iterlist, mi_it, mi_current, active, mi_term, mi_out>>
    /\ UNCHANGED notMI

\* heapify(current); active = len(current)
mi_heapify ==
    /\ mi_pc = "fill"
    /\ mi_it > Len(iterlist)
    /\ active' = Cardinality(mi_current)
    /\ mi_pc' = "outer"
    /\ UNCHANGED <<mi_inputs, iterlist, mi_it, mi_current, mi_term, mi_out>>
    /\ UNCHANGED notMI

\* while active > 0: fnum, text = current[0][:2]; docfreq = 0; termcount = 0
mi_peek ==
    /\ mi_pc = "outer"
    /\ active > 0
    /\ \E e \in mi_top(mi_current) : mi_term' = <<e[1], e[2], 0, 0>>
    /\ mi_pc' = "inner"
    /\ UNCHANGED <<mi_inputs, iterlist, mi_it, mi_current, active, mi_out>>
    /\ UNCHANGED notMI

\* The body of the inner while: add current[0]'s counts, then heapreplace
\* with the iterator's next term, or heappop and active -= 1.
mi_add ==
    /\ mi_pc = "inner"
    /\ mi_current # {}
    /\ \E e \in mi_top(mi_current) :
        /\ mi_matches(e, mi_term[1], mi_term[2])
        /\ mi_term' = <<mi_term[1], mi_term[2], mi_term[3] + e[3], mi_term[4] + e[4]>>
        /\ IF iterlist[e[5]] # <<>>
           THEN /\ mi_current' = (mi_current \ {e})
                                    \cup {Append(Head(iterlist[e[5]]), e[5])}
                /\ iterlist' = [iterlist EXCEPT ![e[5]] = Tail(@)]
                /\ UNCHANGED active
           ELSE /\ mi_current' = mi_current \ {e}
                /\ active' = active - 1
                /\ UNCHANGED iterlist
    /\ UNCHANGED <<mi_inputs, mi_it, mi_out, mi_pc>>
    /\ UNCHANGED notMI

\* The inner while ends: yield (fnum, text, docfreq, termcount)
mi_yield ==
    /\ mi_pc = "inner"
    /\ \/ mi_current = {}
       \/ \E e \in mi_top(mi_current) : ~ mi_matches(e, mi_term[1], mi_term[2])
    /\ mi_out' = Append(mi_out, mi_term)
    /\ mi_pc' = "outer"
    /\ UNCHANGED <<mi_inputs, iterlist, mi_it, mi_current, active, mi_term>>
    /\ UNCHANGED notMI

\* while active > 0 (false): the generator returns
mi_return ==
    /\ mi_pc = "outer"
    /\ active <= 0
    /\ mi_pc' = "done"
    /\ UNCHANGED <<mi_inputs, iterlist, mi_it, mi_current, active, mi_term, mi_out>>
    /\ UNCHANGED notMI

\* The value of miVars on entry to _merge_iters(iterlist), the iterators
\* being over the term sequences its.
merge_iters_call(its) == <<its, its, 1, {}, 0, <<0, 0, 0, 0>>, <<>>, "fill">>

MIIdle == <<<<>>, <<>>, 1, {}, 0, <<0, 0, 0, 0>>, <<>>, "idle">>

MIIs(v) ==
    /\ mi_inputs = v[1]
    /\ iterlist = v[2]
    /\ mi_it = v[3]
    /\ mi_current = v[4]
    /\ active = v[5]
    /\ mi_term = v[6]
    /\ mi_out = v[7]
    /\ mi_pc = v[8]

-----------------------------------------------------------------------------
(* MultiReader: global document numbers.                                   *)

MaxSegments == 3

\* doc_count_all() of a segment reader.
DocCounts == {0, 2, 3, 5}

\* bisect.bisect_right(a, x, lo, hi): a is indexed from 0 in the code.
RECURSIVE bisect_right(_, _, _, _)
bisect_right(a, x, lo, hi) ==
    IF lo < hi
    THEN LET mid == (lo + hi) \div 2
         IN  IF x < a[mid + 1]
             THEN bisect_right(a, x, lo, mid)
             ELSE bisect_right(a, x, mid + 1, hi)
    ELSE lo

Max(a, b) == IF a >= b THEN a ELSE b

\* The segment without "max(0, ...)".
document_segment_unclamped(offsets, docnum) ==
    bisect_right(offsets, docnum, 0, Len(offsets)) - 1

\* The segment taken as the insertion point itself (no "- 1").
document_segment_no_decrement(offsets, docnum) ==
    Max(0, bisect_right(offsets, docnum, 0, Len(offsets)))

\* "max(0, bisect_right(self.doc_offsets, docnum) - 1)"
document_segment(offsets, docnum) ==
    Max(0, bisect_right(offsets, docnum, 0, Len(offsets)) - 1)

\* _segment_and_docnum: doc_offsets[segmentnum] raises IndexError on an
\* empty list.
segment_and_docnum(offsets, docnum) ==
    LET segmentnum == document_segment(offsets, docnum)
    IN  IF segmentnum + 1 \in DOMAIN offsets
        THEN [raised |-> FALSE, segmentnum |-> segmentnum,
              segmentdoc |-> docnum - offsets[segmentnum + 1]]
        ELSE [raised |-> TRUE, segmentnum |-> 0, segmentdoc |-> 0]

RECURSIVE SumSeq(_)
SumSeq(s) == IF s = <<>> THEN 0 ELSE Head(s) + SumSeq(Tail(s))

\* A segment reader's point lookup of component n (3: docfreq, 4: termcount)
\* of a term: what its own term iterator reports for the term, 0 when the
\* segment does not hold it.
segment_lookup(terms, fnum, text, n) ==
    LET here == {j \in 1..Len(terms) : Key(terms[j]) = <<fnum, text>>}
    IN  IF here = {} THEN 0 ELSE terms[CHOOSE j \in here : TRUE][n]

\* doc_frequency asking the first segment only.
doc_frequency_first(segments, fnum, text) ==
    IF segments = <<>> THEN 0 ELSE segment_lookup(segments[1], fnum, text, 3)

\* "return sum(r.doc_frequency(fieldnum, text) for r in self.readers)"
doc_frequency(segments, fnum, text) ==
    SumSeq([i \in 1..Len(segments) |-> segment_lookup(segments[i], fnum, text, 3)])

\* "return sum(r.frequency(fieldnum, text) for r in self.readers)"
frequency(segments, fnum, text) ==
    SumSeq([i \in 1..Len(segments) |-> segment_lookup(segments[i], fnum, text, 4)])

\* MultiReader.__init__: for r in self.readers:
\*     self.doc_offsets.append(base); base += r.doc_count_all()
mr_init_reader ==
    /\ md_pc = "init"
    /\ Len(doc_offsets) < Len(doc_counts)
    /\ doc_offsets' = Append(doc_offsets, base)
    /\ base' = base + doc_counts[Len(doc_offsets) + 1]
    /\ UNCHANGED <<doc_counts, md_docnum, md_result, md_pc>>
    /\ UNCHANGED notMD

mr_init_done ==
    /\ md_pc = "init"
    /\ Len(doc_offsets) = Len(doc_counts)
    /\ md_pc' = "ready"
    /\ UNCHANGED <<doc_counts, doc_offsets, base, md_docnum, md_result>>
    /\ UNCHANGED notMD

\* A call _segment_and_docnum(docnum), with docnum in range or just outside.
mr_segment_and_docnum ==
    /\ md_pc = "ready"
    /\ \E docnum \in (0 - 1)..(SumSeq(doc_counts) + 1) :
        /\ md_docnum' = docnum
        /\ md_result' = segment_and_docnum(doc_offsets, docnum)
    /\ UNCHANGED <<doc_counts, doc_offsets, base, md_pc>>
    /\ UNCHANGED notMD

NoResult == [raised |-> FALSE, segmentnum |-> 0 - 1, segmentdoc |-> 0]

multireader_new(counts) == <<counts, <<>>, 0, 0, NoResult, "init">>

MDIdle == <<<<>>, <<>>, 0, 0, NoResult, "idle">>

MDIs(v) ==
    /\ doc_counts = v[1]
    /\ doc_offsets = v[2]
    /\ base = v[3]
    /\ md_docnum = v[4]
    /\ md_result = v[5]
    /\ md_pc = v[6]

-----------------------------------------------------------------------------
(* MultiReader.postings.                                                   *)

\* The schema of the index, shared by its segment readers: the field ids it
\* has.  Field 2 is unknown to the first schema.
IndexSchemas == {{1}, {1, 2}}

FieldIds == {1, 2}
Texts == {1, 2}

ReaderDocCounts == {0, 2}

\* A segment reader over an index with the given schema.
SegmentReaders(fields) ==
    [doc_count : ReaderDocCounts,
     schema : {fields},
     terms : SUBSET ({<<1, 1>>, <<1, 2>>} \cup {<<f, 1>> : f \in fields})]

\* r.postings(fieldid, text, ...) of segment reader i: the posting reader of
\* that segment for that term.
segment_postings(i, fieldid, text) == [reader |-> i, term |-> <<fieldid, text>>]

\* The body of MultiReader.postings from reader i on.  "r.schema[fieldid]"
\* raises KeyError when the schema has no such field; it is evaluated for every
\* reader, before the membership test.
RECURSIVE postings_from(_, _, _, _, _, _, _)
postings_from(rs, offsets, fieldid, text, i, postreaders, docoffsets) ==
    IF i > Len(rs)
    THEN IF postreaders = <<>>
         THEN [raised |-> "TermNotFound", postreaders |-> <<>>, docoffsets |-> <<>>]
         ELSE [raised |-> "", postreaders |-> postreaders, docoffsets |-> docoffsets]
    ELSE IF fieldid \notin rs[i].schema
         THEN [raised |-> "KeyError", postreaders |-> <<>>, docoffsets |-> <<>>]
         ELSE IF <<fieldid, text>> \in rs[i].terms
              THEN postings_from(rs, offsets, fieldid, text, i + 1,
                                 Append(postreaders, segment_postings(i, fieldid, text)),
                                 Append(docoffsets, offsets[i]))
              ELSE postings_from(rs, offsets, fieldid, text, i + 1,
                                 postreaders, docoffsets)

postings(rs, offsets, fieldid, text) ==
    postings_from(rs, offsets, fieldid, text, 1, <<>>, <<>>)

\* A call postings(fieldid, text) on the MultiReader, once __init__ is done.
mr_postings ==
    /\ md_pc = "ready"
    /\ \E fieldid \in FieldIds, text \in Texts :
        /\ mp_term' = <<fieldid, text>>
        /\ mp_result' = postings(readers, doc_offsets, fieldid, text)
    /\ UNCHANGED <<readers, sfn_result>>
    /\ UNCHANGED notMP

NoPostings == [raised |-> "none", postreaders |-> <<>>, docoffsets |-> <<>>]

\* A segment reader, by the field names its scorable_field_names() returns.
ScorableReaders ==
    [doc_count : {0}, schema : {{1, 2, 3}}, terms : {{}}, scorable : SUBSET {1, 2, 3}]

\* sorted(s): the members of a set in ascending order.
RECURSIVE sorted(_)
sorted(S) ==
    IF S = {} THEN <<>>
    ELSE LET m == CHOOSE x \in S : \A y \in S : x <= y
         IN  <<m>> \o sorted(S \ {m})

\* MultiReader.scorable_field_names from reader i on: "s.union(...)" returns
\* a new set, which is dropped; s itself is not changed.
RECURSIVE scorable_field_names_from(_, _, _)
scorable_field_names_from(rs, i, s) ==
    IF i > Len(rs) THEN sorted(s)
    ELSE LET dropped == s \cup rs[i].scorable
         IN  scorable_field_names_from(rs, i + 1, s)

\* A call scorable_field_names() on the MultiReader.
mr_scorable_field_names ==
    /\ md_pc = "ready"
    /\ sfn_result' = [called |-> TRUE,
                      names |-> scorable_field_names_from(readers, 1, {})]
    /\ UNCHANGED <<readers, mp_term, mp_result>>
    /\ UNCHANGED notMP

NoNames == [called |-> FALSE, names |-> <<>>]

MPIdle == <<<<>>, <<0, 0>>, NoPostings, NoNames>>

MPIs(v) ==
    /\ readers = v[1]
    /\ mp_term = v[2]
    /\ mp_result = v[3]
    /\ sfn_result = v[4]

-----------------------------------------------------------------------------
(* The posting formats: write_postvalue, read_postvalue and the data_to_*  *)
(* extractors of Existance, Frequency, DocBoosts, Positions, Characters    *)
(* and PositionBoosts.                                                     *)
(* A Python value is the record [type, v]: type is "None", "int", "tuple"  *)
(* or "list", v what it holds.  A boost is a float the one-byte encoding   *)
(* represents exactly, named by an integer code.                           *)

MaxPositions == 2

Formats ==
    {"Existance", "Frequency", "DocBoosts", "Positions", "Characters",
     "PositionBoosts"}

PyNone == [type |-> "None", v |-> <<>>]
PyInt(n) == [type |-> "int", v |-> n]
PyTuple(t) == [type |-> "tuple", v |-> t]
PyList(l) == [type |-> "list", v |-> l]

\* a == b in Python, for the values above: values of different types are
\* not equal.
PyEq(a, b) == a.type = b.type /\ a.v = b.v

Freqs == {1, 2, 3}
Boosts == {1, 2}
PositionValues == {0, 1, 3}
CharTriples == {<<0, 0, 2>>, <<1, 2, 3>>, <<3, 4, 6>>}
PositionBoostPairs == PositionValues \X Boosts

\* The payloads word_datas produces for a format: positions ascend within a
\* posting, and a token starts where the one before it ended or later.
Payloads(fmt) ==
    CASE fmt = "Existance" -> {PyNone}
      [] fmt = "Frequency" -> {PyInt(n) : n \in Freqs}
      [] fmt = "DocBoosts" -> {PyTuple(<<n, b>>) : n \in Freqs, b \in Boosts}
      [] fmt = "Positions" ->
            {PyList(l) : l \in {q \in SeqsUpTo(PositionValues, MaxPositions) :
                \A i \in 1..(Len(q) - 1) : q[i] <= q[i + 1]}}
      [] fmt = "Characters" ->
            {PyList(l) : l \in {q \in SeqsUpTo(CharTriples, MaxPositions) :
                \A i \in 1..(Len(q) - 1) :
                    q[i][1] <= q[i + 1][1] /\ q[i][3] <= q[i + 1][2]}}
      [] fmt = "PositionBoosts" ->
            {PyList(l) : l \in {q \in SeqsUpTo(PositionBoostPairs, MaxPositions) :
                \A i \in 1..(Len(q) - 1) : q[i][1] <= q[i + 1][1]}}

\* The stream: write_varint and write_8bitfloat append one primitive,
\* read_varint and read_8bitfloat take the next one.
write_varint(st, n) == Append(st, <<"varint", n>>)
write_8bitfloat(st, f) == Append(st, <<"8bitfloat", f>>)
read_varint(st) == [v |-> Head(st)[2], rest |-> Tail(st)]
read_8bitfloat(st) == [v |-> Head(st)[2], rest |-> Tail(st)]

\* What read_postvalue gives: the value returned, or the exception raised,
\* and the stream behind what it read.
Returned(value, st) == [raised |-> "", data |-> value, rest |-> st]
Raised(exc, st) == [raised |-> exc, data |-> PyNone, rest |-> st]

\* ---- Existance ----
Existance_write_postvalue(st, data) == [stream |-> st, ret |-> 0]

Existance_read_postvalue(st) == Returned(PyNone, st)

\* ---- Frequency ----
Frequency_write_postvalue(st, data) ==
    [stream |-> write_varint(st, data.v), ret |-> data.v]

Frequency_read_postvalue(st) ==
    LET r == read_varint(st) IN Returned(PyInt(r.v), r.rest)

\* ---- DocBoosts ----
DocBoosts_write_postvalue(st, data) ==
    [stream |-> write_8bitfloat(write_varint(st, data.v[1]), data.v[2]),
     ret |-> data.v[1]]

DocBoosts_read_postvalue(st) ==
    LET n == read_varint(st)
        b == read_8bitfloat(n.rest)
    IN  Returned(PyTuple(<<n.v, b.v>>), b.rest)

\* ---- Positions ----
\* "for pos in data: stream.write_varint(pos - pos_base); pos_base = pos"
RECURSIVE Positions_write_from(_, _, _, _)
Positions_write_from(st, l, i, pos_base) ==
    IF i > Len(l) THEN st
    ELSE Positions_write_from(write_varint(st, l[i] - pos_base), l, i + 1, l[i])

Positions_write_postvalue(st, data) ==
    [stream |-> Positions_write_from(write_varint(st, Len(data.v)), data.v, 1, 0),
     ret |-> Len(data.v)]

\* "pos_base += stream.read_varint(); pos_list.append(pos_base)", n times.
RECURSIVE Positions_read_from(_, _, _, _)
Positions_read_from(st, n, pos_base, pos_list) ==
    IF n = 0 THEN Returned(PyList(pos_list), st)
    ELSE LET r == read_varint(st)
         IN  Positions_read_from(r.rest, n - 1, pos_base + r.v,
                                 Append(pos_list, pos_base + r.v))

Positions_read_postvalue(st) ==
    LET n == read_varint(st) IN Positions_read_from(n.rest, n.v, 0, <<>>)

\* ---- Characters ----
RECURSIVE Characters_write_from(_, _, _, _, _)
Characters_write_from(st, l, i, pos_base, char_base) ==
    IF i > Len(l) THEN st
    ELSE LET pos == l[i][1]
             startchar == l[i][2]
             endchar == l[i][3]
             s1 == write_varint(st, pos - pos_base)
             s2 == write_varint(s1, startchar - char_base)
             s3 == write_varint(s2, endchar - startchar)
         IN  Characters_write_from(s3, l, i + 1, pos, endchar)

Characters_write_postvalue(st, data) ==
    [stream |-> Characters_write_from(write_varint(st, Len(data.v)), data.v, 1, 0, 0),
     ret |-> Len(data.v)]

\* The first pass of the loop reads three numbers and then calls
\* "ls.append(pos_base, startchar, char_base)": list.append takes exactly one
\* argument, so the call raises TypeError.
Characters_read_postvalue(st) ==
    LET n == read_varint(st)
    IN  IF n.v = 0 THEN Returned(PyList(<<>>), n.rest)
        ELSE LET pos == read_varint(n.rest)
                 startchar == read_varint(pos.rest)
                 endchar == read_varint(startchar.rest)
             IN  Raised("TypeError", endchar.rest)

\* ---- PositionBoosts ----
RECURSIVE PositionBoosts_write_from(_, _, _, _, _)
PositionBoosts_write_from(st, l, i, pos_base, count) ==
    IF i > Len(l) THEN [stream |-> st, ret |-> count]
    ELSE LET pos == l[i][1]
             boost == l[i][2]
         IN  PositionBoosts_write_from(
                 write_8bitfloat(write_varint(st, pos - pos_base), boost),
                 l, i + 1, pos, count + 1)

PositionBoosts_write_postvalue(st, data) ==
    PositionBoosts_write_from(write_varint(st, Len(data.v)), data.v, 1, 0, 0)

RECURSIVE PositionBoosts_read_from(_, _, _, _, _)
PositionBoosts_read_from(st, freq, n, pos_base, pos_list) ==
    IF n = 0 THEN Returned(PyTuple(<<freq, PyList(pos_list)>>), st)
    ELSE LET p == read_varint(st)
             b == read_8bitfloat(p.rest)
         IN  PositionBoosts_read_from(b.rest, freq, n - 1, pos_base + p.v,
                                      Append(pos_list, <<pos_base + p.v, b.v>>))

\* "return (freq, pos_list)"
PositionBoosts_read_postvalue(st) ==
    LET freq == read_varint(st)
    IN  PositionBoosts_read_from(freq.rest, freq.v, freq.v, 0, <<>>)

\* ---- Format ----
write_postvalue(fmt, st, data) ==
    CASE fmt = "Existance" -> Existance_write_postvalue(st, data)
      [] fmt = "Frequency" -> Frequency_write_postvalue(st, data)
      [] fmt = "DocBoosts" -> DocBoosts_write_postvalue(st, data)
      [] fmt = "Positions" -> Positions_write_postvalue(st, data)
      [] fmt = "Characters" -> Characters_write_postvalue(st, data)
      [] fmt = "PositionBoosts" -> PositionBoosts_write_postvalue(st, data)

read_postvalue(fmt, st) ==
    CASE fmt = "Existance" -> Existance_read_postvalue(st)
      [] fmt = "Frequency" -> Frequency_read_postvalue(st)
      [] fmt = "DocBoosts" -> DocBoosts_read_postvalue(st)
      [] fmt = "Positions" -> Positions_read_postvalue(st)
      [] fmt = "Characters" -> Characters_read_postvalue(st)
      [] fmt = "PositionBoosts" -> PositionBoosts_read_postvalue(st)

\* Format.__init__: field_boost = 1.0
field_boost == 1

\* supports that does not see the data_to_weight methods.
supports_no_weight(fmt, name) ==
    \/ name = "frequency"
    \/ name = "positions" /\ fmt \in {"Positions", "Characters", "PositionBoosts"}
    \/ name = "characters" /\ fmt = "Characters"
    \/ name = "position_boosts" /\ fmt = "PositionBoosts"

\* Format.supports(name): hasattr(self, "data_to_" + name).  DocBoosts
\* inherits Frequency's methods.
supports(fmt, name) ==
    \/ name \in {"frequency", "weight"}
    \/ name = "positions" /\ fmt \in {"Positions", "Characters", "PositionBoosts"}
    \/ name = "characters" /\ fmt = "Characters"
    \/ name = "position_boosts" /\ fmt = "PositionBoosts"

\* data_to_frequency of each format: 1, data, data[0], len(data).
data_to_frequency(fmt, data) ==
    CASE fmt = "Existance" -> 1
      [] fmt = "Frequency" -> data.v
      [] fmt = "DocBoosts" -> data.v[1]
      [] fmt \in {"Positions", "Characters", "PositionBoosts"} -> Len(data.v)

\* data_to_weight of each format.  "sum(d[1] for d in data)" raises TypeError
\* when d is a number.
data_to_weight(fmt, data) ==
    CASE fmt = "Existance" -> [raised |-> "", v |-> PyInt(field_boost)]
      [] fmt = "Frequency" -> [raised |-> "", v |-> PyInt(data.v * field_boost)]
      [] fmt = "DocBoosts" ->
            [raised |-> "", v |-> PyInt(data.v[1] * data.v[2] * field_boost)]
      [] fmt \in {"Positions", "Characters"} ->
            [raised |-> "", v |-> PyInt(Len(data.v) * field_boost)]
      [] fmt = "PositionBoosts" ->
            IF data.type = "list"
            THEN [raised |-> "",
                  v |-> PyInt(Len(data.v)
                              * SumSeq([i \in 1..Len(data.v) |-> data.v[i][2]])
                              * field_boost)]
            ELSE [raised |-> "TypeError", v |-> PyNone]

\* Format.data_to(data, name): getattr(self, "data_to_" + name) raises
\* AttributeError when the format has no such method; otherwise the value
\* the extractor returns, or the exception it raises.
\*   Positions.data_to_positions: data
\*   Characters.data_to_positions: (pos for pos, _, _ in data)
\*   Characters.data_to_characters: ((sc, ec) for _, sc, ec in data)
\*   PositionBoosts.data_to_positions: [d[0] for d in data], where d[0]
\*     raises TypeError when d is a number
\*   PositionBoosts.data_to_position_boosts: data
data_to(fmt, data, name) ==
    CASE ~ supports(fmt, name) ->
            [raised |-> "AttributeError", v |-> PyNone]
      [] name = "weight" ->
            data_to_weight(fmt, data)
      [] name = "frequency" ->
            [raised |-> "", v |-> PyInt(data_to_frequency(fmt, data))]
      [] name = "positions" /\ fmt = "Positions" ->
            [raised |-> "", v |-> data]
      [] name = "positions" /\ fmt = "Characters" ->
            [raised |-> "", v |-> PyList([i \in 1..Len(data.v) |-> data.v[i][1]])]
      [] name = "positions" /\ fmt = "PositionBoosts" ->
            IF data.type = "list"
            THEN [raised |-> "", v |-> PyList([i \in 1..Len(data.v) |-> data.v[i][1]])]
            ELSE [raised |-> "TypeError", v |-> PyNone]
      [] name = "characters" ->
            [raised |-> "",
             v |-> PyList([i \in 1..Len(data.v) |-> <<data.v[i][2], data.v[i][3]>>])]
      [] name = "position_boosts" ->
            [raised |-> "", v |-> data]

\* format.write_postvalue(stream, data) on an empty stream.
cv_write ==
    /\ cv_pc = "new"
    /\ LET w == write_postvalue(cv_format, cv_stream, cv_data)
       IN  /\ cv_stream' = w.stream
           /\ cv_written' = w.ret
    /\ cv_pc' = "written"
    /\ UNCHANGED <<cv_format, cv_data, cv_read, cv_metric>>
    /\ UNCHANGED notCV

\* format.read_postvalue(stream) on the stream just written.
cv_read_back ==
    /\ cv_pc = "written"
    /\ LET r == read_postvalue(cv_format, cv_stream)
       IN  /\ cv_read' = [raised |-> r.raised, data |-> r.data]
           /\ cv_stream' = r.rest
    /\ cv_pc' = "read"
    /\ UNCHANGED <<cv_format, cv_data, cv_written, cv_metric>>
    /\ UNCHANGED notCV

\* The names a caller may ask for: those some format has an extractor for,
\* and one no format has.
MetricNames ==
    {"frequency", "weight", "positions", "characters", "position_boosts", "vector"}

\* format.supports(name) and format.data_to(data, name) on the payload.
cv_data_to ==
    /\ cv_pc \in {"new", "written", "read"}
    /\ \E name \in MetricNames :
        cv_metric' = [name |-> name,
                      supports |-> supports(cv_format, name),
                      data_to |-> data_to(cv_format, cv_data, name)]
    /\ UNCHANGED <<cv_format, cv_data, cv_stream, cv_written, cv_read, cv_pc>>
    /\ UNCHANGED notCV

NoRead == [raised |-> "none", data |-> PyNone]

NoMetric ==
    [name |-> "", supports |-> FALSE, data_to |-> [raised |-> "none", v |-> PyNone]]

codec_new(fmt, data) == <<fmt, data, <<>>, 0, NoRead, NoMetric, "new">>

CVIdle == <<"None", PyNone, <<>>, 0, NoRead, NoMetric, "idle">>

CVIs(v) ==
    /\ cv_format = v[1]
    /\ cv_data = v[2]
    /\ cv_stream = v[3]
    /\ cv_written = v[4]
    /\ cv_read = v[5]
    /\ cv_metric = v[6]
    /\ cv_pc = v[7]

-----------------------------------------------------------------------------
(* PoolBase: field lengths.                                                *)

MaxRecords == 3

Docnums == {0, 1, 3}
LengthFields == {1, 2}

\* add_content records the term count of a field value, when it is not zero.
FieldLengths == {1, 5}

\* _fill_lengths is called with the number of documents of the segment.
DocCountArgs == 0..5

\* whoosh.util.length_to_byte: the one-byte quantization of a length, which
\* keeps 0, loses precision on larger lengths and never exceeds 255.
length_to_byte(length) ==
    IF length = 0 THEN 0
    ELSE IF length >= 300 THEN 255
    ELSE 1 + (length \div 2)

\* dict.get(k, default) and d[k] = v, on a dict given as a function.
Get(d, k, default) == IF k \in DOMAIN d THEN d[k] ELSE default
Put(d, k, v) == [x \in DOMAIN d \cup {k} |-> IF x = k THEN v ELSE d[x]]

\* "for _ in xrange(n): arry.append(0)"
AppendZeros(arry, n) == arry \o [i \in 1..n |-> 0]

\* The three dicts of PoolBase, as one value.
Tracker ==
    [length_arrays |-> length_arrays,
     totals |-> fieldlength_totals,
     maxes |-> fieldlength_maxes]

\* add_field_length storing the length only where the array had no entry yet.
add_field_length_first_kept(t, docnum, fieldname, length) ==
    LET arry == Get(t.length_arrays, fieldname, <<>>)
        grown == IF Len(arry) <= docnum
                 THEN AppendZeros(arry, docnum - Len(arry) + 1)
                 ELSE arry
    IN  [length_arrays |->
            Put(t.length_arrays, fieldname,
                IF grown[docnum + 1] = 0
                THEN [grown EXCEPT ![docnum + 1] = length_to_byte(length)]
                ELSE grown),
         totals |-> Put(t.totals, fieldname, Get(t.totals, fieldname, 0) + length),
         maxes |-> IF length > Get(t.maxes, fieldname, 0)
                   THEN Put(t.maxes, fieldname, length)
                   ELSE t.maxes]

\* PoolBase.add_field_length.  Arrays are indexed from 0 in the code.
add_field_length_in(t, docnum, fieldname, length) ==
    LET arry == Get(t.length_arrays, fieldname, <<>>)
        grown == IF Len(arry) <= docnum
                 THEN AppendZeros(arry, docnum - Len(arry) + 1)
                 ELSE arry
    IN  [length_arrays |->
            Put(t.length_arrays, fieldname,
                [grown EXCEPT ![docnum + 1] = length_to_byte(length)]),
         totals |-> Put(t.totals, fieldname, Get(t.totals, fieldname, 0) + length),
         maxes |-> IF length > Get(t.maxes, fieldname, 0)
                   THEN Put(t.maxes, fieldname, length)
                   ELSE t.maxes]

\* _fill_lengths padding every array to one entry less than doccount.
fill_lengths_short(arrays, doccount) ==
    [f \in DOMAIN arrays |->
        IF Len(arrays[f]) < doccount - 1
        THEN AppendZeros(arrays[f], doccount - 1 - Len(arrays[f]))
        ELSE arrays[f]]

\* PoolBase._fill_lengths.
fill_lengths(arrays, doccount) ==
    [f \in DOMAIN arrays |->
        IF Len(arrays[f]) < doccount
        THEN AppendZeros(arrays[f], doccount - Len(arrays[f]))
        ELSE arrays[f]]

add_field_length ==
    /\ fl_pc = "open"
    /\ Len(fl_calls) < MaxRecords
    /\ \E docnum \in Docnums, fieldname \in LengthFields, length \in FieldLengths :
        LET t == add_field_length_in(Tracker, docnum, fieldname, length)
        IN  /\ length_arrays' = t.length_arrays
            /\ fieldlength_totals' = t.totals
            /\ fieldlength_maxes' = t.maxes
            /\ fl_calls' = Append(fl_calls, <<docnum, fieldname, length>>)
    /\ UNCHANGED <<fl_before, fl_doccount, fl_pc, ac_last>>
    /\ UNCHANGED notFL

\* _write_lengths(lengthfile, doccount), called by finish: _fill_lengths.
write_lengths ==
    /\ fl_pc = "open"
    /\ \E doccount \in DocCountArgs :
        /\ fl_doccount' = doccount
        /\ length_arrays' = fill_lengths(length_arrays, doccount)
    /\ fl_before' = length_arrays
    /\ fl_pc' = "filled"
    /\ UNCHANGED <<fieldlength_totals, fieldlength_maxes, fl_calls, ac_last>>
    /\ UNCHANGED notFL

\* PoolBase.add_content(docnum, fieldname, field, value).  field.index(value)
\* gives tuples (w, freq, weight, valuestring); field.scorable is a flag.
MaxContents == 2
MaxTuples == 2

IndexTuples == {<<1, 1, 1, 0>>, <<2, 0, 2, 1>>}
ContentTargets == {<<0, 1>>, <<1, 2>>}
ContentLimits == {21, 1000}

\* "for w, freq, weight, valuestring in field.index(value):
\*      add_posting(fieldname, w, docnum, weight, valuestring)"
RECURSIVE add_postings_in(_, _, _, _)
add_postings_in(w, docnum, fieldname, tuples) ==
    IF tuples = <<>> THEN w
    ELSE add_postings_in(
             add_posting_in(w, <<fieldname, Head(tuples)[1], docnum,
                                 Head(tuples)[3], Head(tuples)[4]>>),
             docnum, fieldname, Tail(tuples))

\* "termcount += freq" over the tuples.
RECURSIVE termcount_of(_)
termcount_of(tuples) ==
    IF tuples = <<>> THEN 0 ELSE Head(tuples)[2] + termcount_of(Tail(tuples))

\* The length recorded for every field value with terms, scorable or not.
records_length_any(scorable, termcount) == termcount # 0

\* "if field.scorable and termcount:"
records_length(scorable, termcount) == scorable /\ termcount # 0

NoContent ==
    [called |-> FALSE, docnum |-> 0, fieldname |-> 0, scorable |-> FALSE,
     tuples |-> <<>>, returned |-> 0, added_before |-> 0, calls_before |-> 0,
     calls_made |-> 0,
     tracker_before |-> [length_arrays |-> <<>>, totals |-> <<>>, maxes |-> <<>>]]

add_content ==
    /\ pool_pc = "open"
    /\ fl_pc = "open"
    /\ \E target \in ContentTargets, scorable \in BOOLEAN,
          tuples \in SeqsUpTo(IndexTuples, MaxTuples) :
        LET docnum == target[1]
            fieldname == target[2]
            termcount == termcount_of(tuples)
            t == IF records_length(scorable, termcount)
                 THEN add_field_length_in(Tracker, docnum, fieldname, termcount)
                 ELSE Tracker
        IN  /\ ac_last.calls_made < MaxContents
            /\ WorldBecomes(add_postings_in(World, docnum, fieldname, tuples))
            /\ added' = added \o [i \in 1..Len(tuples) |->
                                   <<fieldname, tuples[i][1], docnum,
                                     tuples[i][3], tuples[i][4]>>]
            /\ length_arrays' = t.length_arrays
            /\ fieldlength_totals' = t.totals
            /\ fieldlength_maxes' = t.maxes
            /\ fl_calls' = IF records_length(scorable, termcount)
                           THEN Append(fl_calls, <<docnum, fieldname, termcount>>)
                           ELSE fl_calls
            /\ ac_last' = [called |-> TRUE, docnum |-> docnum,
                           fieldname |-> fieldname, scorable |-> scorable,
                           tuples |-> tuples, returned |-> termcount,
                           added_before |-> Len(added),
                           calls_before |-> Len(fl_calls),
                           calls_made |-> ac_last.calls_made + 1,
                           tracker_before |-> Tracker]
    /\ UNCHANGED <<wp_called, postiter, pool_pc, fl_before, fl_doccount, fl_pc>>
    /\ UNCHANGED <<mergeVars, wpVars, miVars, mdVars, mpVars, cvVars, schVars>>

FLIdle == <<<<>>, <<>>, <<>>, <<>>, <<>>, 0, "idle", NoContent>>

FLNew == <<<<>>, <<>>, <<>>, <<>>, <<>>, 0, "open", NoContent>>

FLIs(v) ==
    /\ length_arrays = v[1]
    /\ fieldlength_totals = v[2]
    /\ fieldlength_maxes = v[3]
    /\ fl_calls = v[4]
    /\ fl_before = v[5]
    /\ fl_doccount = v[6]
    /\ fl_pc = v[7]
    /\ ac_last = v[8]

-----------------------------------------------------------------------------
(* Schema.                                                                 *)

MaxAddCalls == 3

\* Field names, as the sequences of their characters.
FieldNames == {<<"a">>, <<"b">>, <<"_", "a">>, <<>>}

\* Values given as the fieldtype argument: whether the value is callable,
\* whether it is an instance of FieldType, and what calling it without
\* arguments gives: an instance of FieldType (a configured subclass such as
\* TEXT), an object that is not one (dict), or a TypeError (the class
\* FieldType itself, whose __init__ needs a format).
AnInstance == [callable |-> FALSE, isfield |-> TRUE, call |-> "none"]
ASubclass == [callable |-> TRUE, isfield |-> FALSE, call |-> "instance"]
AString == [callable |-> FALSE, isfield |-> FALSE, call |-> "none"]
AType == [callable |-> TRUE, isfield |-> FALSE, call |-> "object"]
TheBaseClass == [callable |-> TRUE, isfield |-> FALSE, call |-> "TypeError"]

FieldValues == {AnInstance, ASubclass, AString, AType, TheBaseClass}

\* Schema.__init__ with no keyword arguments.
NewSchema == [by_number |-> <<>>, names |-> <<>>, by_name |-> <<>>, numbers |-> <<>>]

\* name.startswith("_")
startswith_underscore(name) == Len(name) >= 1 /\ name[1] = "_"

\* "if callable(fieldtype): fieldtype = fieldtype()": the value after the
\* call, when the call returns.
instantiate(fieldtype) ==
    IF ~ fieldtype.callable THEN fieldtype
    ELSE IF fieldtype.call = "instance" THEN AnInstance
    ELSE AString

\* Schema.add(name, fieldtype).  Field numbers count from 0.
schema_add_in(s, name, fieldtype) ==
    IF startswith_underscore(name)
    THEN [raised |-> "FieldConfigurationError", schema |-> s]
    ELSE IF name \in DOMAIN s.by_name
    THEN [raised |-> "FieldConfigurationError", schema |-> s]
    ELSE IF fieldtype.callable /\ fieldtype.call = "TypeError"
    THEN [raised |-> "TypeError", schema |-> s]
    ELSE IF ~ instantiate(fieldtype).isfield
    THEN [raised |-> "FieldConfigurationError", schema |-> s]
    ELSE [raised |-> "None",
          schema |-> [by_number |-> Append(s.by_number, instantiate(fieldtype)),
                      names |-> Append(s.names, name),
                      by_name |-> Put(s.by_name, name, instantiate(fieldtype)),
                      numbers |-> Put(s.numbers, name, Len(s.by_number))]]

\* "return self._numbers[name]" and "return self._names[number]"
name_to_number(s, name) == s.numbers[name]
number_to_name(s, number) == s.names[number + 1]

NoAdd ==
    [calls |-> 0, name |-> <<>>, fieldtype |-> AString, raised |-> "None",
     before |-> NewSchema]

schema_add ==
    /\ sch_last.calls < MaxAddCalls
    /\ \E name \in FieldNames, fieldtype \in FieldValues :
        LET r == schema_add_in(sch, name, fieldtype)
        IN  /\ sch' = r.schema
            /\ sch_last' = [calls |-> sch_last.calls + 1, name |-> name,
                            fieldtype |-> fieldtype, raised |-> r.raised,
                            before |-> sch]
    /\ UNCHANGED notSchema

SchemaIdle == <<NewSchema, NoAdd>>

SchemaIs(v) ==
    /\ sch = v[1]
    /\ sch_last = v[2]

-----------------------------------------------------------------------------
(* Specifications.                                                         *)

InitMerge ==
    /\ \E srcs \in SeqsUpTo(SortedSeqsUpTo(MergeItems, MaxRunLen), MaxSources) :
          MergeIs(imerge_call(srcs))
    /\ PoolIs(PoolIdle)
    /\ WPIs(WPIdle)
    /\ MIIs(MIIdle)
    /\ MDIs(MDIdle)
    /\ MPIs(MPIdle)
    /\ CVIs(CVIdle)
    /\ FLIs(FLIdle)
    /\ SchemaIs(SchemaIdle)

NextMerge == imerge

SpecMerge == InitMerge /\ [][NextMerge]_vars

InitPool ==
    /\ MergeIs(MergeIdle)
    /\ \E limit \in Limits, dirarg \in {"None", "given"}, other \in BOOLEAN :
          /\ dirarg = "None" => ~ other
          /\ PoolIs(<<NewPool(limit, dirarg), NewFs(dirarg, other),
                      <<>>, FALSE, <<>>, "open">>)
    /\ WPIs(WPIdle)
    /\ MIIs(MIIdle)
    /\ MDIs(MDIdle)
    /\ MPIs(MPIdle)
    /\ CVIs(CVIdle)
    /\ FLIs(FLIdle)
    /\ SchemaIs(SchemaIdle)

\* Under the pool every run holds at least one posting, so of imerge's steps
\* imerge_fill_stop and imerge_return cannot occur.
NextPool ==
    \/ add_posting
    \/ dump_run
    \/ cancel
    \/ finish_empty
    \/ finish_sort
    \/ finish_merge
    \/ finish_cleanup
    \/ finish_sort_raises
    \/ finish_merge_raises
    \/ imerge_fill_next
    \/ imerge_heapify
    \/ imerge_pop
    \/ imerge_refill
    \/ imerge_shortcut
    \/ imerge_tail

SpecPool == InitPool /\ [][NextPool]_vars

InitWP ==
    /\ MergeIs(MergeIdle)
    /\ PoolIs(PoolIdle)
    /\ \E stream \in SeqsUpTo(WPPostings, MaxStream),
          limit \in InlineLimits, table \in LengthTables :
          WPIs(write_postings_call(stream, limit, table))
    /\ MIIs(MIIdle)
    /\ MDIs(MDIdle)
    /\ MPIs(MPIdle)
    /\ CVIs(CVIdle)
    /\ FLIs(FLIdle)
    /\ SchemaIs(SchemaIdle)

NextWP ==
    \/ wp_first
    \/ wp_new_term
    \/ wp_raise
    \/ wp_same_term
    \/ wp_end

SpecWP == InitWP /\ [][NextWP]_vars

InitTerms ==
    /\ MergeIs(MergeIdle)
    /\ PoolIs(PoolIdle)
    /\ WPIs(WPIdle)
    /\ \E its \in SeqsUpTo(TermIters, MaxIters) : MIIs(merge_iters_call(its))
    /\ MDIs(MDIdle)
    /\ MPIs(MPIdle)
    /\ CVIs(CVIdle)
    /\ FLIs(FLIdle)
    /\ SchemaIs(SchemaIdle)

NextTerms ==
    \/ mi_fill_next
    \/ mi_fill_stop
    \/ mi_heapify
    \/ mi_peek
    \/ mi_add
    \/ mi_yield
    \/ mi_return

SpecTerms == InitTerms /\ [][NextTerms]_vars

InitDocs ==
    /\ MergeIs(MergeIdle)
    /\ PoolIs(PoolIdle)
    /\ WPIs(WPIdle)
    /\ MIIs(MIIdle)
    /\ \E counts \in SeqsUpTo(DocCounts, MaxSegments) : MDIs(multireader_new(counts))
    /\ MPIs(MPIdle)
    /\ CVIs(CVIdle)
    /\ FLIs(FLIdle)
    /\ SchemaIs(SchemaIdle)

NextDocs ==
    \/ mr_init_reader
    \/ mr_init_done
    \/ mr_segment_and_docnum

SpecDocs == InitDocs /\ [][NextDocs]_vars

\* A MultiReader over up to MaxSegments segment readers of one index:
\* __init__ runs, then postings is called.
InitPostings ==
    /\ MergeIs(MergeIdle)
    /\ PoolIs(PoolIdle)
    /\ WPIs(WPIdle)
    /\ MIIs(MIIdle)
    /\ \E fields \in IndexSchemas :
       \E rs \in SeqsUpTo(SegmentReaders(fields), MaxSegments) :
          /\ MDIs(multireader_new([i \in 1..Len(rs) |-> rs[i].doc_count]))
          /\ MPIs(<<rs, <<0, 0>>, NoPostings, NoNames>>)
    /\ CVIs(CVIdle)
    /\ FLIs(FLIdle)
    /\ SchemaIs(SchemaIdle)

NextPostings ==
    \/ mr_init_reader
    \/ mr_init_done
    \/ mr_postings

SpecPostings == InitPostings /\ [][NextPostings]_vars

\* A MultiReader over segment readers with scorable fields of their own:
\* __init__ runs, then scorable_field_names is called.
InitScorable ==
    /\ MergeIs(MergeIdle)
    /\ PoolIs(PoolIdle)
    /\ WPIs(WPIdle)
    /\ MIIs(MIIdle)
    /\ \E rs \in SeqsUpTo(ScorableReaders, MaxSegments) :
          /\ MDIs(multireader_new([i \in 1..Len(rs) |-> rs[i].doc_count]))
          /\ MPIs(<<rs, <<0, 0>>, NoPostings, NoNames>>)
    /\ CVIs(CVIdle)
    /\ FLIs(FLIdle)
    /\ SchemaIs(SchemaIdle)

NextScorable ==
    \/ mr_init_reader
    \/ mr_init_done
    \/ mr_scorable_field_names

SpecScorable == InitScorable /\ [][NextScorable]_vars

\* One payload of one format is written to a stream and read back.
InitCodec ==
    /\ MergeIs(MergeIdle)
    /\ PoolIs(PoolIdle)
    /\ WPIs(WPIdle)
    /\ MIIs(MIIdle)
    /\ MDIs(MDIdle)
    /\ MPIs(MPIdle)
    /\ \E fmt \in Formats : \E data \in Payloads(fmt) : CVIs(codec_new(fmt, data))
    /\ FLIs(FLIdle)
    /\ SchemaIs(SchemaIdle)

NextCodec ==
    \/ cv_write
    \/ cv_read_back
    \/ cv_data_to

SpecCodec == InitCodec /\ [][NextCodec]_vars

\* A new pool records field lengths, then finish() writes them.
InitLengths ==
    /\ MergeIs(MergeIdle)
    /\ PoolIs(PoolIdle)
    /\ WPIs(WPIdle)
    /\ MIIs(MIIdle)
    /\ MDIs(MDIdle)
    /\ MPIs(MPIdle)
    /\ CVIs(CVIdle)
    /\ FLIs(FLNew)
    /\ SchemaIs(SchemaIdle)

NextLengths ==
    \/ add_field_length
    \/ write_lengths

SpecLengths == InitLengths /\ [][NextLengths]_vars

InitContent ==
    /\ MergeIs(MergeIdle)
    /\ \E limit \in ContentLimits :
          PoolIs(<<NewPool(limit, "None"), NewFs("None", FALSE),
                   <<>>, FALSE, <<>>, "open">>)
    /\ WPIs(WPIdle)
    /\ MIIs(MIIdle)
    /\ MDIs(MDIdle)
    /\ MPIs(MPIdle)
    /\ CVIs(CVIdle)
    /\ FLIs(FLNew)
    /\ SchemaIs(SchemaIdle)

NextContent == add_content

SpecContent == InitContent /\ [][NextContent]_vars

InitSchema ==
    /\ MergeIs(MergeIdle)
    /\ PoolIs(PoolIdle)
    /\ WPIs(WPIdle)
    /\ MIIs(MIIdle)
    /\ MDIs(MDIdle)
    /\ MPIs(MPIdle)
    /\ CVIs(CVIdle)
    /\ FLIs(FLIdle)
    /\ SchemaIs(SchemaIdle)

NextSchema == schema_add

SpecSchema == InitSchema /\ [][NextSchema]_vars

-----------------------------------------------------------------------------
\* C1: once imerge has returned, the sequence it yielded is sorted ascending
\* and is, as a multiset, exactly the union of the elements of all inputs;
\* every prefix yielded before that is sorted as well.
C1_MergeSortedUnion ==
    /\ IsSorted(merged)
    /\ mg_pc = "done" => BagOfSeq(merged) = BagOfSeq(Flatten(mg_inputs))

\* C1 witness: a finished merge of three sources, one of them empty, with an
\* element that occurs in two sources.
C1_Witness ==
    /\ mg_pc = "done"
    /\ Len(mg_inputs) = 3
    /\ \E i \in 1..3 : mg_inputs[i] = <<>>
    /\ \E i, j \in 1..3 : i # j /\ mg_inputs[i] # <<>> /\ mg_inputs[j] # <<>>
                              /\ mg_inputs[i][1] = mg_inputs[j][1]
    /\ Len(merged) >= 3

\* C2: when finish() has returned, the posting sequence it handed to
\* write_postings is sorted ascending and holds exactly the postings added
\* (it is the sorted list of all added postings), whatever the limit.
C2_FinishHandsSorted ==
    (pool_pc = "finished" /\ wp_called) =>
        /\ IsSorted(postiter)
        /\ BagOfSeq(postiter) = BagOfSeq(added)
        /\ postiter = list_sort(added)

\* C2 witness: a finished pool that spilled on every add_posting (a limit
\* below one posting's estimate) and handed over postings that were added
\* out of order.
C2_Witness ==
    /\ pool_pc = "finished"
    /\ wp_called
    /\ pool.limit = 5
    /\ Len(pool.runs) = 3
    /\ Len(added) = 3
    /\ ~ IsSorted(added)

-----------------------------------------------------------------------------
(* write_postings: what the claims speak of.                               *)

\* The postings write_postings has pulled from postiter so far.
Consumed == Len(wp_in) - Len(wp_rest)

KeysOf(s) == {Key(s[i]) : i \in 1..Len(s)}

Group(s, k) == {i \in 1..Len(s) : Key(s[i]) = k}

RECURSIVE GroupWeight(_, _)
GroupWeight(s, k) ==
    IF s = <<>> THEN 0
    ELSE (IF Key(Head(s)) = k THEN Head(s)[4] ELSE 0) + GroupWeight(Tail(s), k)

GroupDocnums(s, k) == {s[i][3] : i \in Group(s, k)}

TermKeys == [i \in 1..Len(termtable) |-> termtable[i][1]]

Calls(op) == {i \in 1..Len(pwcalls) : pwcalls[i].op = op}

\* C3: for a sorted posting stream write_postings never raises, adds the term
\* entries in strictly ascending key order, has added exactly one entry per
\* distinct (fieldname, text) of the stream when it returns, and for an empty
\* stream adds no entry and never starts the posting writer.
C3_OneEntryPerKey ==
    IsSorted(wp_in) =>
        /\ wp_pc # "raised"
        /\ \A i \in 1..(Len(termtable) - 1) : LexLess(TermKeys[i], TermKeys[i + 1])
        /\ wp_pc = "done" =>
            /\ {TermKeys[i] : i \in 1..Len(termtable)} = KeysOf(wp_in)
            /\ Len(termtable) = Cardinality(KeysOf(wp_in))
        /\ wp_in = <<>> => (termtable = <<>> /\ Calls("start") = {})

\* C3 witness: write_postings has returned from a sorted stream of three
\* postings in two term groups.
C3_Witness ==
    /\ wp_pc = "done"
    /\ IsSorted(wp_in)
    /\ Len(wp_in) = 3
    /\ Cardinality(KeysOf(wp_in)) = 2
    /\ Len(termtable) = 2

\* C4: for a sorted stream, the weight stored in every term entry is the sum
\* of the weights of the postings of that entry's group, and of no other.
C4_TotalWeight ==
    IsSorted(wp_in) =>
        \A i \in 1..Len(termtable) :
            termtable[i][2][1] = GroupWeight(wp_in, termtable[i][1])

\* C4 witness: an entry for a group of two postings that follows another
\* group, so that a weight was accumulated before the group opened.
C4_Witness ==
    /\ wp_pc = "done"
    /\ IsSorted(wp_in)
    /\ Len(termtable) = 2
    /\ Cardinality(Group(wp_in, termtable[2][1])) = 2
    /\ termtable[1][2][1] > 0
    /\ termtable[2][2][1] = 3

C6_OutOfOrderRaises ==
    \A i \in 2..Consumed :
        LexLess(Key(wp_in[i]), Key(wp_in[i - 1])) =>
            /\ wp_pc = "raised"
            /\ i = Consumed
            /\ Cardinality(Calls("write")) = Consumed - 1

\* C7: every term group, the last one included, is closed by one rule: with
\* a posting count at or below inlinelimit and no block written the entry
\* holds the inline representation and the writer was cancelled, not
\* finished; otherwise the writer was finished and the entry holds the
\* offset start() returned.
C7_OneClosingRule ==
    \A i \in 1..Len(termtable) :
        IF closes[i].postcount <= inlinelimit /\ closes[i].blockcount < 1
        THEN /\ termtable[i][2][2].kind = "inline"
             /\ closes[i].inline
             /\ ~ closes[i].finished
        ELSE /\ termtable[i][2][2].kind = "offset"
             /\ closes[i].finished

-----------------------------------------------------------------------------
(* MultiReader: what the claims speak of.                                  *)

AllTermKeys == UNION {KeysOf(mi_inputs[i]) : i \in 1..Len(mi_inputs)}

\* The sum, over the iterators that hold key k, of component n of their term.
RECURSIVE SumOverIters(_, _, _)
SumOverIters(its, k, n) ==
    IF its = <<>> THEN 0
    ELSE LET here == {j \in 1..Len(Head(its)) : Key(Head(its)[j]) = k}
         IN  (IF here = {} THEN 0 ELSE Head(its)[CHOOSE j \in here : TRUE][n])
             + SumOverIters(Tail(its), k, n)

\* C8: for iterators that each hold at least one term, in strictly ascending
\* key order, _merge_iters yields strictly ascending keys, each tuple with
\* the docfreq and termcount summed over all iterators that hold its key,
\* and when it returns it has yielded every key of every iterator.
C8_MergeItersSums ==
    (\A i \in 1..Len(mi_inputs) : mi_inputs[i] # <<>>) =>
        /\ mi_pc # "stopped"
        /\ StrictlyAscendingKeys(mi_out)
        /\ \A i \in 1..Len(mi_out) :
            /\ mi_out[i][3] = SumOverIters(mi_inputs, Key(mi_out[i]), 3)
            /\ mi_out[i][4] = SumOverIters(mi_inputs, Key(mi_out[i]), 4)
        /\ mi_pc = "done" => KeysOf(mi_out) = AllTermKeys

\* C8 witness: three iterators, two of them reporting the same key with
\* (docfreq, termcount) = (2, 5) and (1, 1), merged into (3, 6).
C8_Witness ==
    /\ mi_pc = "done"
    /\ Len(mi_inputs) = 3
    /\ \A i \in 1..3 : mi_inputs[i] # <<>>
    /\ Len(mi_out) >= 2
    /\ mi_out[1] = <<1, 1, 3, 6>>

\* C9: when the merged enumeration has ended, it has yielded every key that
\* occurs in at least one of the iterators, also when some iterator yields
\* no term at all.
C9_EveryKeyEnumerated ==
    mi_pc \in {"done", "stopped"} => AllTermKeys \subseteq KeysOf(mi_out)

PrefixSum(counts, n) == SumSeq(SubSeq(counts, 1, n))

Looked == md_pc = "ready" /\ md_result # NoResult

\* C10: for a global document number g with 0 <= g < total count,
\* _segment_and_docnum(g) returns (s, l) with s the rightmost segment whose
\* prefix-sum offset is <= g, l = g - offset of s and 0 <= l < document count
\* of s; counts [3,5,2] map 7 to (1,4), 0 to (0,0) and 9 to (2,1).
C10_SegmentAndDocnum ==
    (Looked /\ 0 <= md_docnum /\ md_docnum < SumSeq(doc_counts)) =>
        LET s == md_result.segmentnum
            l == md_result.segmentdoc
        IN  /\ ~ md_result.raised
            /\ s + 1 \in DOMAIN doc_counts
            /\ PrefixSum(doc_counts, s) <= md_docnum
            /\ \A j \in (s + 1)..(Len(doc_counts) - 1) :
                   PrefixSum(doc_counts, j) > md_docnum
            /\ l = md_docnum - PrefixSum(doc_counts, s)
            /\ 0 <= l /\ l < doc_counts[s + 1]
            /\ doc_counts = <<3, 5, 2>> =>
                /\ md_docnum = 7 => (s = 1 /\ l = 4)
                /\ md_docnum = 0 => (s = 0 /\ l = 0)
                /\ md_docnum = 9 => (s = 2 /\ l = 1)

\* C10 witness: a lookup that lands behind a segment with no document.
C10_Witness ==
    /\ Looked
    /\ doc_counts = <<3, 0, 2>>
    /\ md_docnum = 3
    /\ md_result = [raised |-> FALSE, segmentnum |-> 2, segmentdoc |-> 0]

-----------------------------------------------------------------------------
\* The segments whose reader contains the term.
Containing(rs, term) == {i \in 1..Len(rs) : term \in rs[i].terms}

\* C11: MultiReader.postings(field, text) raises TermNotFound exactly when no
\* segment reader contains (field, text); otherwise it returns the cursor
\* built from exactly one posting reader per containing segment, in segment
\* order, each paired with that segment's entry of doc_offsets.
C11_PostingsPerSegment ==
    mp_result.raised # "none" =>
        LET c == Containing(readers, mp_term)
            prs == mp_result.postreaders
        IN  /\ (mp_result.raised = "TermNotFound") <=> (c = {})
            /\ c # {} =>
                /\ mp_result.raised = ""
                /\ Len(prs) = Cardinality(c)
                /\ Len(mp_result.docoffsets) = Len(prs)
                /\ \A k \in 1..Len(prs) :
                    /\ prs[k].reader \in c
                    /\ prs[k].term = mp_term
                    /\ mp_result.docoffsets[k] = doc_offsets[prs[k].reader]
                    /\ \A j \in 1..(k - 1) : prs[j].reader < prs[k].reader

-----------------------------------------------------------------------------
\* The extractors the round trip is asked to preserve.
Extractors == {"frequency", "positions", "characters", "position_boosts"}

SameResult(x, y) == x.raised = y.raised /\ (x.raised = "" => PyEq(x.v, y.v))

\* C12: for every format and every valid payload, read_postvalue applied to
\* the stream write_postvalue produced returns a value on which every
\* supported extractor gives the same result as on the original payload.
C12_RoundTrip ==
    cv_pc = "read" =>
        /\ cv_read.raised = ""
        /\ \A name \in Extractors :
            supports(cv_format, name) =>
                SameResult(data_to(cv_format, cv_read.data, name),
                           data_to(cv_format, cv_data, name))

\* C13: for every format and every valid payload, write_postvalue returns the
\* frequency the payload represents: what the format's data_to_frequency
\* gives on that payload.
C13_WriteReturnsFrequency ==
    cv_pc \in {"written", "read"} =>
        cv_written = data_to_frequency(cv_format, cv_data)

-----------------------------------------------------------------------------
\* The run files on disk.
RunFilesOnDisk == DOMAIN fs.files

\* C14: after cancel() on a pool in any state reached through add_posting and
\* dump_run, no run file of the pool is on disk, the posting buffer and the
\* list of runs are empty, and cancel() has written no file (every file made
\* is one a dump_run recorded).
C14_CancelDiscards ==
    pool_pc = "cancelled" =>
        /\ RunFilesOnDisk = {}
        /\ pool.postings = <<>>
        /\ pool.runs = <<>>
        /\ fs.made = Len(pool.runs)

\* C15: after finish() has returned normally, every run file of the pool is
\* deleted, and a temporary directory the pool made for itself (dir = None
\* and at least one run dumped) is removed as well.
C15_FinishRemovesOwnDir ==
    pool_pc = "finished" =>
        /\ RunFilesOnDisk = {}
        /\ "temp" \notin fs.dirs

\* C16: a directory the caller supplied is never removed by cleanup(),
\* cancel() or finish(), whether it is empty or not.
C16_GivenDirKept ==
    pool.dir = "given" => "given" \in fs.dirs

\* The size estimate add_posting adds for one posting.
Estimate(p) ==
    StrLen(p[1]) + StrLen(p[2]) + RecordOverhead + (IF p[5] # 0 THEN StrLen(p[5]) ELSE 0)

LargestAdded ==
    IF added = <<>> THEN 0
    ELSE CHOOSE m \in {Estimate(added[i]) : i \in 1..Len(added)} :
            \A i \in 1..Len(added) : Estimate(added[i]) <= m

\* C17 as stated: in every state reached by add_posting calls, self.size is
\* less than limit plus the estimate of the largest posting added.
C17_SizeBelowLimitPlusLargest ==
    (pool_pc = "open" /\ added # <<>>) => pool.size < pool.limit + LargestAdded

\* C17, amended: self.size is at most limit plus the estimate of the largest
\* posting added, whatever the number of postings added, and less than that
\* when limit is positive.
C17_SizeBounded ==
    (pool_pc = "open" /\ added # <<>>) =>
        /\ pool.size <= pool.limit + LargestAdded
        /\ pool.limit > 0 => pool.size < pool.limit + LargestAdded

\* Postings added beyond the limit, the buffer having been dumped on the way.
C17_Witness ==
    /\ pool_pc = "open"
    /\ Len(added) = MaxAdds
    /\ pool.runs # <<>>
    /\ pool.size > pool.limit
    /\ pool.limit > 0

\* C18: when reading a run or writing the postings fails during finish(), the
\* error reaches the caller and, finish() having exited, no run file of the
\* pool remains on disk.
C18_FailedFinishCleansUp ==
    pool_pc = "failed" => RunFilesOnDisk = {}

-----------------------------------------------------------------------------
\* The add_field_length calls made for a field, and what they recorded.
CallsOf(fieldname) == {i \in 1..Len(fl_calls) : fl_calls[i][2] = fieldname}

TrackedFields == {fl_calls[i][2] : i \in 1..Len(fl_calls)}

RecordedDocnums(fieldname) == {fl_calls[i][1] : i \in CallsOf(fieldname)}

RECURSIVE SumOfLengths(_)
SumOfLengths(is) ==
    IF is = {} THEN 0
    ELSE LET i == CHOOSE x \in is : TRUE
         IN  fl_calls[i][3] + SumOfLengths(is \ {i})

LargestOf(S) == CHOOSE m \in S : \A x \in S : x <= m

LastLength(fieldname, docnum) ==
    fl_calls[LargestOf({i \in CallsOf(fieldname) : fl_calls[i][1] = docnum})][3]

\* C19: after any sequence of add_field_length calls, for every tracked
\* field the running total is the sum of the lengths recorded for it, the
\* running max the largest of them, the array has (largest docnum
\* recorded) + 1 entries, the entry of a recorded docnum is the quantized
\* value of the last length recorded for it, and every other entry is 0.
C19_FieldLengthTracking ==
    fl_pc = "open" =>
        /\ DOMAIN length_arrays = TrackedFields
        /\ DOMAIN fieldlength_totals = TrackedFields
        /\ DOMAIN fieldlength_maxes = TrackedFields
        /\ \A f \in TrackedFields :
            /\ fieldlength_totals[f] = SumOfLengths(CallsOf(f))
            /\ fieldlength_maxes[f] = LargestOf({fl_calls[i][3] : i \in CallsOf(f)})
            /\ Len(length_arrays[f]) = LargestOf(RecordedDocnums(f)) + 1
            /\ \A d \in 0..(Len(length_arrays[f]) - 1) :
                length_arrays[f][d + 1] =
                    IF d \in RecordedDocnums(f)
                    THEN length_to_byte(LastLength(f, d))
                    ELSE 0

\* A docnum recorded twice with different lengths, behind docnums that were
\* never recorded.
C19_Witness ==
    /\ fl_pc = "open"
    /\ \E f \in TrackedFields :
        /\ \E i, j \in CallsOf(f) :
            /\ i < j
            /\ fl_calls[i][1] = fl_calls[j][1]
            /\ length_to_byte(fl_calls[i][3]) # length_to_byte(fl_calls[j][3])
        /\ \E d \in 0..(Len(length_arrays[f]) - 1) : d \notin RecordedDocnums(f)

\* C20: after _fill_lengths(doccount), when every recorded docnum is below
\* doccount, every tracked field's array has exactly doccount entries, the
\* entries it had before are unchanged and every added entry is 0.
C20_FillLengths ==
    (/\ fl_pc = "filled"
     /\ \A i \in 1..Len(fl_calls) : fl_calls[i][1] < fl_doccount) =>
        /\ DOMAIN length_arrays = DOMAIN fl_before
        /\ \A f \in DOMAIN length_arrays :
            /\ Len(length_arrays[f]) = fl_doccount
            /\ \A k \in 1..fl_doccount :
                length_arrays[f][k] =
                    IF k <= Len(fl_before[f]) THEN fl_before[f][k] ELSE 0

\* Two fields with arrays of different lengths, one of them padded.
C20_Witness ==
    /\ fl_pc = "filled"
    /\ \A i \in 1..Len(fl_calls) : fl_calls[i][1] < fl_doccount
    /\ Cardinality(DOMAIN fl_before) = 2
    /\ \E f, g \in DOMAIN fl_before :
        /\ Len(fl_before[f]) < fl_doccount
        /\ Len(fl_before[g]) = fl_doccount
        /\ \E k \in 1..Len(fl_before[f]) : fl_before[f][k] # 0

-----------------------------------------------------------------------------
\* The number of elements imerge has pulled from source i, and the number of
\* them it has yielded.
Pulled(i) == Len(mg_inputs[i]) - Len(iterators[i])

YieldedFrom(i) == yielded_from[i]

\* C21: while the output of imerge is consumed, the number of elements pulled
\* from any source never exceeds the number of that source's elements
\* already yielded plus one, and every element yielded is one pulled from the
\* source it is attributed to.
C21_PullsOnDemand ==
    /\ SumSeq(yielded_from) = Len(merged)
    /\ \A i \in 1..Len(mg_inputs) :
        /\ Pulled(i) <= YieldedFrom(i) + 1
        /\ YieldedFrom(i) <= Pulled(i)

\* In the middle of a merge: a source with an element yielded and the next
\* one held in the heap, while another source still has unread elements.
C21_Witness ==
    /\ mg_pc = "loop"
    /\ \E i, j \in 1..Len(mg_inputs) :
        /\ i # j
        /\ YieldedFrom(i) >= 1
        /\ Pulled(i) = YieldedFrom(i) + 1
        /\ iterators[j] # <<>>

-----------------------------------------------------------------------------
\* A step that is a call of add_posting, and whether it wrote a run.
IsAddPosting == pool_pc = "open" /\ Len(added') = Len(added) + 1

Spilled == Len(pool'.runs) = Len(pool.runs) + 1

\* What a call of add_posting does to the buffer and the runs, given whether
\* it spills: a spill writes the buffer as it was on entry, sorted, and the
\* posting added is the first of the fresh buffer.
AddPostingEffect ==
    LET p == added'[Len(added')]
    IN  IF Spilled
        THEN /\ fs'.files[pool'.runs[Len(pool'.runs)][1]] = list_sort(pool.postings)
             /\ pool'.runs[Len(pool'.runs)][2] = Len(pool.postings)
             /\ pool'.postings = <<p>>
             /\ pool'.size = Estimate(p)
        ELSE /\ pool'.runs = pool.runs
             /\ fs' = fs
             /\ pool'.postings = Append(pool.postings, p)
             /\ pool'.size = pool.size + Estimate(p)

\* C22 as stated: add_posting spills exactly when the size estimate is at or
\* above the limit on entry, before the posting is accepted, and the posting
\* added is never part of the run written by that call.
C22_SpillsWhenAtLimit ==
    [][IsAddPosting =>
        /\ Spilled <=> pool.size >= pool.limit
        /\ AddPostingEffect]_vars

\* C22, amended: add_posting spills exactly when the size estimate is at or
\* above the limit on entry and the buffer is not empty; the spill happens
\* before the posting is accepted, and the posting added is the first posting
\* of the fresh buffer, never part of the run written by that call.
C22_SpillsNonEmptyAtLimit ==
    [][IsAddPosting =>
        /\ Spilled <=> (pool.size >= pool.limit /\ pool.size > 0)
        /\ AddPostingEffect]_vars

\* Three postings added under a limit below one posting's estimate: the second
\* and the third call each wrote the posting before them as a run.
C22_Witness ==
    /\ pool_pc = "open"
    /\ pool.limit = 5
    /\ Len(added) = 3
    /\ Len(pool.runs) = 2
    /\ pool.postings = <<added[3]>>
    /\ fs.files[pool.runs[2][1]] = <<added[2]>>

-----------------------------------------------------------------------------
\* C23: dump_run on a pool whose buffer is empty changes nothing: the size
\* estimate of an empty buffer is 0, and the call records no run, creates no
\* file and no directory, and leaves postings, size, count and runs as they
\* were.
C23_EmptyDumpRunNoOp ==
    (pool_pc = "open" /\ pool.postings = <<>>) =>
        /\ pool.size = 0
        /\ dump_run_in(World) = World

\* An empty buffer behind a run already written: dump_run may be called
\* again.
C23_Witness ==
    /\ pool_pc = "open"
    /\ pool.postings = <<>>
    /\ pool.runs # <<>>
    /\ RunFilesOnDisk # {}

-----------------------------------------------------------------------------
\* C24: MultiReader.scorable_field_names() returns the sorted list of every
\* field name that is scorable in at least one of the segment readers.
C24_ScorableUnion ==
    sfn_result.called =>
        sfn_result.names = sorted(UNION {readers[i].scorable : i \in 1..Len(readers)})

-----------------------------------------------------------------------------
\* The data_to_<name> methods each Format class has, its own or inherited.
Implements(fmt) ==
    CASE fmt = "Existance" -> {"frequency", "weight"}
      [] fmt = "Frequency" -> {"frequency", "weight"}
      [] fmt = "DocBoosts" -> {"frequency", "weight"}
      [] fmt = "Positions" -> {"frequency", "weight", "positions"}
      [] fmt = "Characters" -> {"frequency", "weight", "positions", "characters"}
      [] fmt = "PositionBoosts" ->
            {"frequency", "weight", "positions", "position_boosts"}

\* C25: for every format and every metric name, supports(name) is true
\* exactly when the format implements the extractor, data_to(data, name)
\* returns a value only when supports(name) is true, and for an unsupported
\* name data_to raises an error instead of returning a value.
C25_SupportsAndDataTo ==
    cv_metric.name # "" =>
        /\ cv_metric.supports <=> cv_metric.name \in Implements(cv_format)
        /\ cv_metric.data_to.raised = "" => cv_metric.supports
        /\ ~ cv_metric.supports => cv_metric.data_to.raised = "AttributeError"

\* Both cases: a name the format does not support, asked of a format that
\* supports it for others; a supported name with the value extracted.
C25_Witness ==
    \/ /\ cv_format = "Positions"
       /\ cv_metric.name = "characters"
       /\ cv_metric.data_to.raised = "AttributeError"
    \/ /\ cv_format = "Characters"
       /\ cv_metric.name = "characters"
       /\ cv_metric.data_to.raised = ""
       /\ cv_metric.data_to.v.v # <<>>

-----------------------------------------------------------------------------
\* The postings of the recorded runs, run after run, as their files hold them.
RunContents == [i \in 1..Len(pool.runs) |-> fs.files[pool.runs[i][1]]]

\* The state part of C26.
PoolConsistent ==
    pool_pc = "open" =>
        /\ \A i \in 1..Len(pool.runs) :
            /\ pool.runs[i][1] \in DOMAIN fs.files
            /\ IsSorted(RunContents[i])
            /\ pool.runs[i][2] = Len(RunContents[i])
        /\ pool.count = Len(pool.postings)
        /\ BagOfSeq(Flatten(RunContents) \o pool.postings) = BagOfSeq(added)

\* The step part of C26: a dump_run that found postings in the buffer.
NonEmptyDumpRun ==
    /\ pool_pc = "open"
    /\ added' = added
    /\ Len(pool'.runs) = Len(pool.runs) + 1

\* C26: in every state reached by add_posting and dump_run calls, each
\* recorded run is sorted ascending, the count recorded for a run is the
\* number of postings in its file, self.count is the length of the buffer,
\* the multiset of the postings of all runs and the buffer is the multiset of
\* the postings added, and right after a non-empty dump_run the buffer is
\* empty with size 0.
C26_PoolInvariants ==
    /\ []PoolConsistent
    /\ [][NonEmptyDumpRun =>
            pool'.postings = <<>> /\ pool'.size = 0 /\ pool'.count = 0]_vars

\* A run of two postings that were added in descending order, and a posting
\* in the buffer behind it.
C26_Witness ==
    /\ pool_pc = "open"
    /\ Len(added) = 3
    /\ LexLess(added[2], added[1])
    /\ Len(pool.runs) = 1
    /\ pool.runs[1][2] = 2
    /\ pool.postings = <<added[3]>>

-----------------------------------------------------------------------------
\* No file and no directory has been made by the pool.
NothingOnDisk ==
    /\ fs.made = 0
    /\ RunFilesOnDisk = {}
    /\ "temp" \notin fs.dirs
    /\ pool.dir # "temp"

\* finish() called with postings in the buffer and no run recorded, returning.
FinishWithoutRuns ==
    /\ pool_pc = "open"
    /\ pool.postings # <<>>
    /\ pool.runs = <<>>
    /\ pool_pc' = "finished"

\* C27: a pool makes no run file and no temporary directory before its first
\* non-empty spill, and finish() on a pool with no run recorded sorts the
\* buffer in memory and passes it to write_postings without a run file or a
\* directory ever being made.
C27_NoFilesWithoutSpill ==
    /\ [](pool.runs = <<>> => NothingOnDisk)
    /\ [][FinishWithoutRuns =>
            /\ wp_called'
            /\ postiter' = list_sort(added)
            /\ pool'.runs = <<>>
            /\ fs'.made = 0
            /\ fs'.files = <<>>
            /\ fs'.dirs \subseteq fs.dirs]_vars

\* finish() has sorted two postings added in descending order in memory, on
\* a pool with no directory of its own.
C27_Witness ==
    /\ pool_pc = "finished"
    /\ pool.runs = <<>>
    /\ pool.dir = "None"
    /\ wp_called
    /\ Len(added) >= 2
    /\ LexLess(added[2], added[1])
    /\ postiter = list_sort(added)
    /\ fs.made = 0

-----------------------------------------------------------------------------
\* finish() called on a pool with at least one recorded run, up to the call
\* of imerge.
FinishWithRuns ==
    /\ pool_pc = "open"
    /\ pool.runs # <<>>
    /\ pool_pc' = "merging"

\* The run finish() writes for the postings left in the buffer.
RemainderRun ==
    IF pool.postings = <<>>
    THEN pool'.runs = pool.runs
    ELSE /\ Len(pool'.runs) = Len(pool.runs) + 1
         /\ SubSeq(pool'.runs, 1, Len(pool.runs)) = pool.runs
         /\ pool'.runs[Len(pool'.runs)][2] = Len(pool.postings)
         /\ fs'.files[pool'.runs[Len(pool'.runs)][1]] = list_sort(pool.postings)

\* C28: finish() on a pool with at least one recorded run first writes the
\* postings left in the buffer as one more run, so the buffer is empty when
\* merging starts; imerge is given exactly one source per recorded run, and
\* each source yields exactly the count recorded for its run.
C28_FinishMergesAllRuns ==
    /\ [][FinishWithRuns =>
            /\ RemainderRun
            /\ pool'.postings = <<>>
            /\ Len(mg_inputs') = Len(pool'.runs)
            /\ \A i \in 1..Len(pool'.runs) :
                /\ Len(mg_inputs'[i]) = pool'.runs[i][2]
                /\ mg_inputs'[i] = fs'.files[pool'.runs[i][1]]]_vars
    /\ [](pool_pc = "merging" /\ mg_pc = "done" =>
            /\ pool.postings = <<>>
            /\ \A i \in 1..Len(pool.runs) : yielded_from[i] = pool.runs[i][2])

\* The merge has drained two runs, of two postings and of one.
C28_Witness ==
    /\ pool_pc = "merging"
    /\ mg_pc = "done"
    /\ Len(pool.runs) = 2
    /\ pool.runs[1][2] = 2
    /\ pool.runs[2][2] = 1
    /\ yielded_from = <<2, 1>>
    /\ Len(merged) = 3

-----------------------------------------------------------------------------
\* Where a posting writer stands in its protocol after a call: "out" of any
\* group, "started", "writing" (at least one write), "inlined" (as_inline
\* taken, cancel due), or "broken" once a call came out of turn.
ProtocolStep(at, op) ==
    CASE at = "out" /\ op = "start" -> "started"
      [] at = "started" /\ op = "write" -> "writing"
      [] at = "writing" /\ op = "write" -> "writing"
      [] at = "writing" /\ op = "finish" -> "out"
      [] at = "writing" /\ op = "as_inline" -> "inlined"
      [] at = "inlined" /\ op = "cancel" -> "out"
      [] OTHER -> "broken"

RECURSIVE ProtocolAfter(_)
ProtocolAfter(calls) ==
    IF calls = <<>> THEN "out"
    ELSE ProtocolStep(ProtocolAfter(SubSeq(calls, 1, Len(calls) - 1)),
                      calls[Len(calls)].op)

\* The groups closed so far: one finish() or one cancel() each.
Closings == Calls("finish") \cup Calls("cancel")

\* C29: for a sorted posting stream the calls on the posting writer follow
\* the protocol: per term group one start(), then at least one write(), then
\* one closing step, finish() alone or as_inline() followed by cancel();
\* never finish() and cancel() for the same group, never as_inline() after
\* finish(), never a write() outside a started group.
C29_WriterProtocol ==
    IsSorted(wp_in) =>
        /\ ProtocolAfter(pwcalls) # "broken"
        /\ Cardinality(Calls("start")) =
               Cardinality(KeysOf(SubSeq(wp_in, 1, Consumed)))
        /\ Cardinality(Calls("as_inline")) = Cardinality(Calls("cancel"))
        /\ wp_pc = "done" =>
            /\ ProtocolAfter(pwcalls) = "out"
            /\ Cardinality(Closings) = Cardinality(KeysOf(wp_in))

\* write_postings has returned from a sorted stream of three postings in two
\* groups, the first closed by as_inline() and cancel(), the second by
\* finish().
C29_Witness ==
    /\ wp_pc = "done"
    /\ IsSorted(wp_in)
    /\ Cardinality(KeysOf(wp_in)) = 2
    /\ Cardinality(Calls("cancel")) = 1
    /\ Cardinality(Calls("finish")) = 1
    /\ Cardinality(Calls("write")) = 3

\* The postings handed to write(), call after call: docnum, weight, payload.
Written ==
    LET w == SelectSeq(pwcalls, LAMBDA c : c.op = "write")
    IN  [i \in 1..Len(w) |-> <<w[i].arg[1], w[i].arg[2], w[i].arg[3]>>]

\* The postings write_postings has pulled and not raised on.
Accepted == Consumed - (IF wp_pc = "raised" THEN 1 ELSE 0)

\* C30: write_postings calls write() exactly once for every posting of its
\* input, in input order, with the posting's docnum, weight and payload:
\* the calls made so far are the postings pulled so far, and all of the
\* input when write_postings returns, which on a sorted stream it does.
C30_EveryPostingWritten ==
    /\ Written = [i \in 1..Accepted |-> <<wp_in[i][3], wp_in[i][4], wp_in[i][5]>>]
    /\ wp_pc = "done" => Accepted = Len(wp_in)
    /\ IsSorted(wp_in) => wp_pc # "raised"

\* write_postings has returned from a sorted stream of three postings with
\* different weights in two groups, the first of which has two postings.
C30_Witness ==
    /\ wp_pc = "done"
    /\ IsSorted(wp_in)
    /\ Len(wp_in) = 3
    /\ Key(wp_in[1]) = Key(wp_in[2])
    /\ Key(wp_in[2]) # Key(wp_in[3])
    /\ wp_in[1][4] # wp_in[2][4]
    /\ Len(Written) = 3

-----------------------------------------------------------------------------
\* The number of write() calls among the first j calls on the posting writer:
\* the place in the stream of the posting call j wrote.
WritesUpTo(j) == Cardinality({i \in Calls("write") : i <= j})

\* C31: for every term group of a stream that spans several fields, the
\* posting writer is started with the format of the group's own field,
\* schema[fieldname].format: for the first group of a field as for a group
\* that follows a change of field. The start() of a group is followed by the
\* write() of the group's first posting, whose field is the group's.
C31_StartedWithOwnFormat ==
    /\ \A j \in Calls("start") :
        /\ j + 1 \in Calls("write")
        /\ pwcalls[j].arg = <<schema[wp_in[WritesUpTo(j + 1)][1]]>>
    /\ ~ first => format = schema[current_fieldname]

\* write_postings has returned from a sorted stream with a group of the
\* first field, then two groups of the second field.
C31_Witness ==
    /\ wp_pc = "done"
    /\ IsSorted(wp_in)
    /\ Len(wp_in) = 3
    /\ wp_in[1][1] = 1
    /\ wp_in[2][1] = 2
    /\ wp_in[3][1] = 2
    /\ Key(wp_in[2]) # Key(wp_in[3])
    /\ Cardinality(Calls("start")) = 3
    /\ pwcalls[1].arg # pwcalls[Len(pwcalls) - 2].arg

-----------------------------------------------------------------------------
\* The heap after the initial fill: the first element of every source that
\* has one; and what is left of the sources.
FilledHeap(srcs) == {<<srcs[i][1], i>> : i \in {j \in 1..Len(srcs) : srcs[j] # <<>>}}

FilledRest(srcs) ==
    [i \in 1..Len(srcs) |-> IF srcs[i] = <<>> THEN <<>> ELSE Tail(srcs[i])]

\* The loop of lines 48-54 run "while current" instead of "while
\* len(current) > 1": pop the least item, yield it, refill from its source,
\* until the heap is empty.
RECURSIVE PopAndRefill(_, _)
PopAndRefill(heap, its) ==
    IF heap = {} THEN <<>>
    ELSE LET e == CHOOSE x \in HeapTop(heap) : TRUE
             g == e[2]
             popped == heap \ {e}
         IN  <<e[1]>> \o
             (IF its[g] # <<>>
              THEN PopAndRefill(popped \cup {<<Head(its[g]), g>>},
                                [its EXCEPT ![g] = Tail(@)])
              ELSE PopAndRefill(popped, its))

imerge_general(srcs) == PopAndRefill(FilledHeap(srcs), FilledRest(srcs))

\* C32: for sorted inputs imerge, which passes the last remaining source
\* through directly, yields the same sequence as an imerge that keeps
\* popping and refilling the heap until it is empty: from the shortcut on,
\* what it has yielded is the start of that sequence, and all of it once
\* imerge returns.
C32_ShortcutEquivalent ==
    (/\ mg_pc \in {"tail", "done"}
     /\ \A i \in 1..Len(mg_inputs) : IsSorted(mg_inputs[i])) =>
        LET general == imerge_general(mg_inputs)
        IN  /\ Len(merged) <= Len(general)
            /\ merged = SubSeq(general, 1, Len(merged))
            /\ mg_pc = "done" => merged = general

\* imerge has returned after passing through a last source of which two
\* elements were left when the other sources ran out.
C32_Witness ==
    /\ mg_pc = "done"
    /\ Len(mg_inputs) >= 2
    /\ \E i \in 1..Len(mg_inputs) :
        /\ Len(mg_inputs[i]) = 2
        /\ \A j \in 1..Len(mg_inputs) : j # i =>
            /\ mg_inputs[j] # <<>>
            /\ LexLess(mg_inputs[j][Len(mg_inputs[j])], mg_inputs[i][1])
    /\ merged = imerge_general(mg_inputs)
    /\ Len(merged) >= 3

-----------------------------------------------------------------------------
\* The postings the last add_content call had to add, tuple by tuple.
ContentPostings ==
    [i \in 1..Len(ac_last.tuples) |->
        <<ac_last.fieldname, ac_last.tuples[i][1], ac_last.docnum,
          ac_last.tuples[i][3], ac_last.tuples[i][4]>>]

RECURSIVE SumOfFreqs(_)
SumOfFreqs(tuples) ==
    IF tuples = <<>> THEN 0 ELSE tuples[1][2] + SumOfFreqs(Tail(tuples))

\* C33: add_content adds exactly one posting per tuple produced for the field
\* value, returns the sum of the tuples' frequencies, and calls
\* add_field_length(docnum, fieldname, that sum) exactly when the field is
\* scorable and the sum is not zero; otherwise the length arrays, the totals
\* and the maxes are unchanged.
C33_AddContent ==
    ac_last.called =>
        /\ Len(added) = ac_last.added_before + Len(ac_last.tuples)
        /\ SubSeq(added, ac_last.added_before + 1, Len(added)) = ContentPostings
        /\ BagOfSeq(Flatten(RunContents) \o pool.postings) = BagOfSeq(added)
        /\ ac_last.returned = SumOfFreqs(ac_last.tuples)
        /\ IF ac_last.scorable /\ SumOfFreqs(ac_last.tuples) # 0
           THEN /\ Len(fl_calls) = ac_last.calls_before + 1
                /\ fl_calls[Len(fl_calls)] =
                       <<ac_last.docnum, ac_last.fieldname, SumOfFreqs(ac_last.tuples)>>
                /\ Get(fieldlength_totals, ac_last.fieldname, 0) =
                       Get(ac_last.tracker_before.totals, ac_last.fieldname, 0)
                           + SumOfFreqs(ac_last.tuples)
           ELSE /\ Len(fl_calls) = ac_last.calls_before
                /\ Tracker = ac_last.tracker_before

\* A value of a field that is not scorable, with terms: postings added, a
\* term count returned, no length recorded.
C33_Witness ==
    /\ ac_last.called
    /\ ~ ac_last.scorable
    /\ ac_last.returned > 0
    /\ Len(ac_last.tuples) = 2
    /\ ac_last.added_before > 0
    /\ ac_last.tracker_before.totals # <<>>
    /\ Tracker = ac_last.tracker_before

-----------------------------------------------------------------------------
\* The sources of the merge whose run file is open for reading.
OpenRuns == {i \in 1..Len(handles) : handles[i].open}

\* C34: during finish() with spilled runs, the run files open for reading
\* are never more than the recorded runs, each run file is opened at most
\* once and is on disk while it is open, every handle opened has been closed
\* when the merged sequence is fully consumed and cleanup() deletes the
\* files, and dump_run leaves no run file open for writing.
C34_RunHandles ==
    /\ fs.writing = {}
    /\ pool_pc \in {"merging", "finished"} =>
        /\ Len(handles) <= Len(pool.runs)
        /\ Cardinality(OpenRuns) <= Len(pool.runs)
        /\ \A i \in 1..Len(handles) :
            /\ handles[i].opens <= 1
            /\ handles[i].closes <= handles[i].opens
            /\ handles[i].open => pool.runs[i][1] \in DOMAIN fs.files
        /\ mg_pc = "done" =>
            \A i \in 1..Len(handles) :
                /\ ~ handles[i].open
                /\ handles[i].opens = 1
                /\ handles[i].closes = 1

\* In the middle of the merge of three runs: the first run's file read to
\* its end and closed, the other two open.
C34_Witness ==
    /\ pool_pc = "merging"
    /\ Len(pool.runs) = 3
    /\ handles[1].closes = 1
    /\ OpenRuns = {2, 3}
    /\ fs.made = 3

-----------------------------------------------------------------------------
\* C35: for every key the merged enumeration MultiReader.__iter__ emits, the
\* docfreq emitted is MultiReader.doc_frequency(field, text) and the
\* termcount emitted is MultiReader.frequency(field, text), the segment
\* readers' point lookups agreeing with their term iterators and giving 0
\* for a term a segment does not hold.
C35_IterAgreesWithLookups ==
    \A i \in 1..Len(mi_out) :
        /\ mi_out[i][3] = doc_frequency(mi_inputs, mi_out[i][1], mi_out[i][2])
        /\ mi_out[i][4] = frequency(mi_inputs, mi_out[i][1], mi_out[i][2])

\* The enumeration over three segments has ended; it emitted a key held by
\* the second and third segment and not by the first, with their sums.
C35_Witness ==
    /\ mi_pc = "done"
    /\ Len(mi_inputs) = 3
    /\ \E i \in 1..Len(mi_out) :
        /\ segment_lookup(mi_inputs[1], mi_out[i][1], mi_out[i][2], 3) = 0
        /\ segment_lookup(mi_inputs[2], mi_out[i][1], mi_out[i][2], 3) > 0
        /\ segment_lookup(mi_inputs[3], mi_out[i][1], mi_out[i][2], 3) > 0
        /\ mi_out[i][3] = doc_frequency(mi_inputs, mi_out[i][1], mi_out[i][2])
        /\ mi_out[i][3] > segment_lookup(mi_inputs[2], mi_out[i][1], mi_out[i][2], 3)

-----------------------------------------------------------------------------
\* C36: on a MultiReader with at least one segment _segment_and_docnum never
\* raises on a number out of range: a number at or above the total document
\* count goes to the last segment with a local number at or above that
\* segment's document count, a negative number to segment 0 with a negative
\* local number.
C36_OutOfRangeDocnum ==
    (Looked /\ Len(doc_counts) >= 1) =>
        LET s == md_result.segmentnum
            l == md_result.segmentdoc
            last == Len(doc_counts)
        IN  /\ ~ md_result.raised
            /\ md_docnum >= SumSeq(doc_counts) =>
                /\ s = last - 1
                /\ l = md_docnum - PrefixSum(doc_counts, last - 1)
                /\ l >= doc_counts[last]
            /\ md_docnum < 0 =>
                /\ s = 0
                /\ l = md_docnum
                /\ l < 0

\* A lookup one past the end of three segments, the last one holding no
\* document.
C36_Witness ==
    /\ Looked
    /\ doc_counts = <<3, 2, 0>>
    /\ md_docnum = 6
    /\ md_result = [raised |-> FALSE, segmentnum |-> 2, segmentdoc |-> 1]

-----------------------------------------------------------------------------
\* The last add was given a value that is no FieldType: neither an instance
\* of FieldType nor a class that gives one when called.
NotAFieldType ==
    /\ ~ sch_last.fieldtype.isfield
    /\ ~ (sch_last.fieldtype.callable /\ sch_last.fieldtype.call = "instance")

\* The last add is one to reject.
ToReject ==
    \/ startswith_underscore(sch_last.name)
    \/ sch_last.name \in DOMAIN sch_last.before.by_name
    \/ NotAFieldType

\* C37: after any sequence of Schema.add calls, successful or rejected, the
\* field numbers are 0..n-1 in order of successful addition, name_to_number
\* and number_to_name are inverse bijections between the field names and
\* those numbers, no name occurs twice, no name starts with an underscore,
\* and a rejected add (duplicate name, leading underscore, or a value that
\* is no FieldType) raises FieldConfigurationError and leaves the schema
\* unchanged.
C37_SchemaAdd ==
    LET n == Len(sch.by_number)
    IN  /\ Len(sch.names) = n
        /\ DOMAIN sch.numbers = {sch.names[i] : i \in 1..n}
        /\ DOMAIN sch.by_name = DOMAIN sch.numbers
        /\ \A i \in 1..n :
            /\ name_to_number(sch, sch.names[i]) = i - 1
            /\ number_to_name(sch, i - 1) = sch.names[i]
            /\ sch.by_name[sch.names[i]] = sch.by_number[i]
            /\ ~ startswith_underscore(sch.names[i])
        /\ \A i, j \in 1..n : sch.names[i] = sch.names[j] => i = j
        /\ sch_last.calls > 0 =>
            IF ToReject
            THEN /\ sch_last.raised = "FieldConfigurationError"
                 /\ sch = sch_last.before
            ELSE /\ sch_last.raised = "None"
                 /\ sch.names = Append(sch_last.before.names, sch_last.name)
                 /\ n = Len(sch_last.before.by_number) + 1

====
